---- MODULE Spec2Model ----
(***************************************************************************)
(* A model of the safe-mutation core of the config manager                 *)
(* (electron/ipc-handlers.ts): the JSON stores ~/.claude.json,             *)
(* ~/.claude/mcp.json and the archive mcp-disabled.json, the backups       *)
(* directory, the agent and skill directories, and the handlers that move  *)
(* items between them.                                                     *)
(*                                                                         *)
(* A handler runs synchronously.  Its validation, its reads and its        *)
(* createBackup call are one step (the call), and every later file-system  *)
(* call it makes is one step of the list `todo', so that a failing call    *)
(* (Fail) and a process stop (Crash) can happen between any two of them.   *)
(*                                                                         *)
(* Spec: disableMcp and enableMcp on the JSON stores and the archive.      *)
(* SpecFilesOps: the agent and skill handlers and the raw-content writers. *)
(* SpecBackups: createManualBackup, restoreBackup and mcp:writeConfig on a *)
(* backups directory that is empty, or holds up to MAX_BACKUPS snapshots.  *)
(* SpecRetention: createBackup called again and again on one file.         *)
(* SpecLists: loadMCPs and toggleAllMcps on stores that hold one name at   *)
(* several places and at most one file that does not parse.                *)
(* SpecCorrupt: disableMcp and enableMcp with one file that does not parse.*)
(* SpecWatch: the file watchers, with writes of the manager and of other   *)
(* programs, windows closed and created, and time passing.                 *)
(* SpecToggle: toggleMcp with whatever a caller can pass.                  *)
(* SpecDelete: deleteMcp, deleteAgent, deleteSkill and mcp:writeConfig.    *)
(* SpecSameMs: mcp:toggle called twice within one millisecond of the clock.*)
(* SpecApp: the renderer's cached list, loadConfig and handleToggleMcp.     *)
(* SpecSkills: writeSkillContent and deleteSkill with paths that leave the  *)
(* user skills directory.                                                   *)
(***************************************************************************)
EXTENDS Integers, Sequences, FiniteSets, TLC

VARIABLES
    files,      \* path -> content: the JSON files, the agent files, the skill folders
    tmp,        \* path -> content of the sibling <path>.tmp of a JSON file
    backups,    \* the backups directory, in creation order
    todo,       \* file-system calls the running handler has still to make
    call,       \* the running (or last) handler call: arguments, files at the call, result
    prev,       \* the call before it
    now,        \* the clock (Date.now()), one tick per call that reads it
    mcps,       \* the list that loadMCPs returned last
    watch,      \* the file watchers: clock, watched files, events, timers, signals sent
    app         \* the renderer (App.tsx): its cached list of MCPs and the toggle under way

vars == <<files, tmp, backups, todo, call, prev, now, mcps, watch, app>>

----------------------------------------------------------------------------
(* Bounds of the model *)

\* number of handler calls that get past their validation in one behaviour
MaxOps == 2
\* number of createBackup calls against one file in one behaviour
MaxSnapshots == 15

\* the watcher's clock stops after so many tenths of a second
MaxTime == 12
\* number of handler calls that write, in one behaviour with the watchers
MaxSelfWrites == 1
\* number of changes other programs make to the watched files in one behaviour
MaxChanges == 2
\* number of windows opened in one behaviour
MaxWindows == 2

----------------------------------------------------------------------------
(* Paths and values *)

\* A path is the sequence of its components.
Join(dir, name) == dir \o <<name>>
HomeDir == <<"~">>
CLAUDE_DIR == Join(HomeDir, ".claude")
CLAUDE_JSON_PATH == Join(HomeDir, ".claude.json")
MCP_JSON_PATH == Join(CLAUDE_DIR, "mcp.json")
AGENTS_DIR == Join(CLAUDE_DIR, "agents")
SKILLS_DIR == Join(CLAUDE_DIR, "skills")
PLUGINS_DIR == Join(CLAUDE_DIR, "plugins")
CONFIG_MANAGER_DIR == Join(CLAUDE_DIR, ".config-manager")
MCP_DISABLED_PATH == Join(CONFIG_MANAGER_DIR, "mcp-disabled.json")
AGENTS_DISABLED_DIR == Join(CONFIG_MANAGER_DIR, "agents-disabled")
SKILLS_DISABLED_DIR == Join(CONFIG_MANAGER_DIR, "skills-disabled")

JsonPaths == {CLAUDE_JSON_PATH, MCP_JSON_PATH, MCP_DISABLED_PATH}

\* The agent files and skill folders of the model.
AgentFiles == {"reviewer.md", "planner.json"}
SkillNames == {"pdf"}
AgentPath(filename, isEnabled) ==
    Join(IF isEnabled THEN AGENTS_DIR ELSE AGENTS_DISABLED_DIR, filename)
SkillPath(name, isEnabled) ==
    Join(IF isEnabled THEN SKILLS_DIR ELSE SKILLS_DISABLED_DIR, name)
AgentPaths == {AgentPath(f, e) : f \in AgentFiles, e \in BOOLEAN}
SkillPaths == {SkillPath(n, e) : n \in SkillNames, e \in BOOLEAN}
\* The folder of a skill that a plugin has installed.
PluginSkillPath(name) == PLUGINS_DIR \o <<"cache", name>>
PluginSkillPaths == {PluginSkillPath(n) : n \in SkillNames}
AllPaths == JsonPaths \cup AgentPaths \cup SkillPaths \cup PluginSkillPaths

\* The path the file system resolves a path to: a component '..' takes the component
\* before it away (path.join and path.normalize do the same).
RECURSIVE Normalize(_)
Normalize(path) ==
    LET ups == {i \in 2..Len(path) : path[i] = ".." /\ path[i - 1] # ".."}
    IN IF ups = {} THEN path
       ELSE LET i == CHOOSE u \in ups : \A v \in ups : u <= v
            IN Normalize(SubSeq(path, 1, i - 2) \o SubSeq(path, i + 1, Len(path)))

\* A name that leads from the user skills directory to the folder of a plugin skill.
UpToPlugin(name) == "../plugins/cache/" \o name

\* The components of a skill name, as path.join splits it at the separators.
Components(name) ==
    IF \E n \in SkillNames : name = UpToPlugin(n)
    THEN <<"..", "plugins", "cache">>
            \o <<CHOOSE n \in SkillNames : name = UpToPlugin(n)>>
    ELSE <<name>>

MAX_BACKUPS == 10

\* A string is a sequence of tokens; ":" is the separator the archive keys use.
Names == {<<"a">>, <<"q", ":", "a">>}
ProjectPaths == {<<"p">>, <<"p", ":", "q">>}
NoPath == <<>>
Sources == {"user", "local", "mcp.json"}

\* JSON objects are functions on their keys.
EmptyMap == <<>>
Put(m, k, v) == [y \in DOMAIN m \cup {k} |-> IF y = k THEN v ELSE m[y]]
Del(m, k) == [y \in DOMAIN m \ {k} |-> m[y]]

\* The content of a file: absent, unparseable (corrupt, or partially written), or a JSON value.
Absent == [st |-> "absent", data |-> <<>>]
Corrupt == [st |-> "corrupt", data |-> <<>>]
Partial == [st |-> "partial", data |-> <<>>]
Ok(d) == [st |-> "ok", data |-> d]

\* {} for ~/.claude.json: no mcpServers, no projects, no other key.
\* (An absent mcpServers key and an empty mcpServers object are one value here.)
ClaudeDefault == [mcpServers |-> EmptyMap, projects |-> EmptyMap, other |-> EmptyMap]
McpDefault == [mcpServers |-> EmptyMap]
DisabledDefault == [version |-> 1, disabled |-> EmptyMap]

\* The default with which loadMCPs reads the file at path p.
DefaultOf(p) ==
    CASE p = CLAUDE_JSON_PATH -> ClaudeDefault
      [] p = MCP_JSON_PATH -> McpDefault
      [] OTHER -> DisabledDefault

DisabledEntry(config, source, projectPath, at) ==
    [config |-> config, source |-> source, projectPath |-> projectPath,
     metadata |-> [disabledAt |-> at, reason |-> "user"]]

\* readJsonFile: the default when the file is absent, and also when it does not parse.
readJsonFile(content, defaultValue) ==
    IF content.st = "ok" THEN content.data ELSE defaultValue

----------------------------------------------------------------------------
(* Archive keys *)

UserKey(name) == <<"user", ":">> \o name
LocalKey(projectPath, name) == <<"local", ":">> \o projectPath \o <<":">> \o name
McpJsonKey(name) == <<"mcpjson", ":">> \o name

ArchiveKey(source, projectPath, name) ==
    CASE source = "user" -> UserKey(name)
      [] source = "local" -> LocalKey(projectPath, name)
      [] OTHER -> McpJsonKey(name)

\* s.replace(pat, ''): s without the first occurrence of pat
ReplaceFirst(s, pat) ==
    LET hits == {i \in 1..(Len(s) - Len(pat) + 1) : SubSeq(s, i, i + Len(pat) - 1) = pat}
    IN IF hits = {} THEN s
       ELSE LET i == CHOOSE h \in hits : \A g \in hits : h <= g
            IN SubSeq(s, 1, i - 1) \o SubSeq(s, i + Len(pat), Len(s))

\* s.split(':') and the last part of it
LastPart(s) ==
    LET seps == {i \in 1..Len(s) : s[i] = ":"}
    IN IF seps = {} THEN s
       ELSE LET i == CHOOSE h \in seps : \A g \in seps : h >= g
            IN SubSeq(s, i + 1, Len(s))

\* The name under which enableMcp restores the entry of key disabledKey.
EnableName(source, disabledKey) ==
    CASE source = "user" -> ReplaceFirst(disabledKey, <<"user", ":">>)
      [] source = "local" -> LastPart(disabledKey)
      [] OTHER -> ReplaceFirst(disabledKey, <<"mcpjson", ":">>)

----------------------------------------------------------------------------
(* The active stores *)

\* The path of the file that holds the items of a source.
StorePath(source) == IF source = "mcp.json" THEN MCP_JSON_PATH ELSE CLAUDE_JSON_PATH
StoreDefault(source) == IF source = "mcp.json" THEN McpDefault ELSE ClaudeDefault

\* The mcpServers object of (source, projectPath) in the parsed store json.
Servers(json, source, projectPath) ==
    CASE source = "local" ->
            IF projectPath \in DOMAIN json.projects THEN json.projects[projectPath]
            ELSE EmptyMap
      [] OTHER -> json.mcpServers

WithServers(json, source, projectPath, servers) ==
    CASE source = "local" ->
            [json EXCEPT !.projects = Put(json.projects, projectPath, servers)]
      [] OTHER -> [json EXCEPT !.mcpServers = servers]

----------------------------------------------------------------------------
(* File-system calls of a handler, run one per step *)

\* fs.writeFileSync(path + '.tmp', data)
WriteTmp(path, data) == [op |-> "writeTmp", path |-> path, dest |-> path, data |-> data]
\* fs.renameSync(path + '.tmp', path); data: what the handler means the file to hold
\* after it (the rename itself moves whatever <path>.tmp holds)
Rename(path, data) == [op |-> "rename", path |-> path, dest |-> path, data |-> data]
\* fs.writeFileSync(path, data), fs.copyFileSync(src, path): the target is written in place
WriteDirect(path, data) == [op |-> "write", path |-> path, dest |-> path, data |-> data]

\* fs.renameSync(path, dest) of a file or a folder
Move(path, dest) == [op |-> "move", path |-> path, dest |-> dest, data |-> Absent]
\* fs.unlinkSync(path)
Unlink(path) == [op |-> "unlink", path |-> path, dest |-> path, data |-> Absent]
\* fs.rmSync(path, { recursive: true, force: true }) of a folder
RmRecursive(path) == [op |-> "rm", path |-> path, dest |-> path, data |-> Absent]

\* A write of the target in place, as a plain fs.writeFileSync would do it.
writeJsonFileDirect(path, data) == <<WriteDirect(path, Ok(data))>>

\* writeJsonFileAtomic: write <path>.tmp, then rename it over path.
writeJsonFileAtomic(path, data) == <<WriteTmp(path, Ok(data)), Rename(path, Ok(data))>>

----------------------------------------------------------------------------
(* Backups *)

\* One file of the backups directory, with its .meta.json sidecar if it has one.
Backup(base, kind, ts, content, originalPath, hasMeta) ==
    [base |-> base, kind |-> kind, ts |-> ts, content |-> content,
     originalPath |-> originalPath, hasMeta |-> hasMeta]

\* path.basename
BaseName(path) == path[Len(path)]

\* cleanupOldBackups: of the files named <baseFileName>.*, newest first, delete
\* those after the first MAX_BACKUPS, with their sidecars.
cleanupOldBackups(dir, baseFileName) ==
    LET mine == {i \in 1..Len(dir) : dir[i].base = baseFileName}
        keep == {i \in mine : Cardinality({j \in mine : j > i}) < MAX_BACKUPS}
        idx == {i \in 1..Len(dir) : i \notin mine \/ i \in keep}
        Nth(k) == CHOOSE i \in idx : Cardinality({j \in idx : j < i}) = k - 1
    IN [k \in 1..Cardinality(idx) |-> dir[Nth(k)]]

\* fs.copyFileSync(filePath, backupPath) into the backups directory: a file of that
\* name that is there already is written over (its sidecar stays until it is rewritten),
\* and the file is the newest of the directory.
SameName(b, c) == b.base = c.base /\ b.kind = c.kind /\ b.ts = c.ts
CopyInto(dir, b) == Append(SelectSeq(dir, LAMBDA c : ~SameName(c, b)), b)

\* createBackup: nothing when the file is absent; else the copy, the sidecar and the cleanup.
\* outcome "ok"; "copyFails" (copyFileSync throws); "metaFails" (the sidecar write throws).
createBackup(dir, path, content, ts, outcome) ==
    IF content.st = "absent" \/ outcome = "copyFails" THEN dir
    ELSE IF outcome = "metaFails"
         THEN CopyInto(dir, Backup(BaseName(path), "snapshot", ts, content, path,
                                   \E c \in {dir[i] : i \in DOMAIN dir} :
                                      /\ SameName(c, Backup(BaseName(path), "snapshot", ts,
                                                            content, path, FALSE))
                                      /\ c.hasMeta))
         ELSE cleanupOldBackups(
                 CopyInto(dir, Backup(BaseName(path), "snapshot", ts, content, path, TRUE)),
                 BaseName(path))

BackupOutcomes(content) ==
    IF content.st = "absent" THEN {"ok"} ELSE {"ok", "copyFails", "metaFails"}

\* No file of the backups directory.
NoBackup == Backup("", "none", 0, Absent, NoPath, FALSE)

\* The backup the raw-content writers make: if the file exists, a copy named
\* <base>.backup-<ms>, with no sidecar and no cleanup.
rawBackup(dir, base, content, ts, outcome) ==
    IF content.st = "absent" \/ outcome = "copyFails" THEN dir
    ELSE CopyInto(dir, Backup(base, "raw", ts, content, NoPath, FALSE))

RawOutcomes(content) ==
    IF content.st = "absent" THEN {"ok"} ELSE {"ok", "copyFails"}

----------------------------------------------------------------------------
(* Results *)

Success == [success |-> TRUE, error |-> ""]
Failure(e) == [success |-> FALSE, error |-> e]
Running == [success |-> FALSE, error |-> "(running)"]
Crashed == [success |-> FALSE, error |-> "(process stopped)"]

Threw == [success |-> FALSE, error |-> "(uncaught exception)"]

\* A handler call: its arguments, the files and backups at the call, whether the
\* handler catches what its file-system calls throw, and its result.
Call(op, name, source, projectPath, key, result) ==
    [op |-> op, name |-> name, source |-> source, projectPath |-> projectPath,
     key |-> key, path |-> NoPath, dest |-> NoPath, backup |-> NoBackup,
     catches |-> TRUE, pre |-> files, preBackups |-> backups, result |-> result]

\* A call of a handler that works on the file `path' (and moves it to `dest').
FileCall(op, path, dest, catches) ==
    [Call(op, <<>>, "", NoPath, <<>>, Running)
        EXCEPT !.path = path, !.dest = dest, !.catches = catches]

NoCall == [op |-> "none", name |-> <<>>, source |-> "", projectPath |-> NoPath,
           key |-> <<>>, path |-> NoPath, dest |-> NoPath, backup |-> NoBackup,
           catches |-> TRUE, pre |-> <<>>, preBackups |-> <<>>, result |-> Success]

Idle == todo = <<>> /\ now <= MaxOps

\* The call before the new one, kept when it succeeded.
Previous == IF call.result.success THEN call ELSE NoCall

\* The handler returns `c.result' before it reads the clock or writes anything.
Reject(c) ==
    /\ call' = c
    /\ UNCHANGED <<mcps, watch, app>>
    /\ prev' = Previous
    /\ UNCHANGED now
    /\ todo' = <<>>

\* The handler returns `c.result' after its createBackup call.
Return(c) ==
    /\ call' = c
    /\ UNCHANGED <<mcps, watch, app>>
    /\ prev' = Previous
    /\ now' = now + 1
    /\ todo' = <<>>

\* The handler goes on to make the file-system calls `steps'.
Continue(c, steps) ==
    /\ call' = [c EXCEPT !.result = Running]
    /\ UNCHANGED <<mcps, watch, app>>
    /\ prev' = Previous
    /\ now' = now + 1
    /\ todo' = steps

----------------------------------------------------------------------------
(* disableMcp *)

\* The active store first, the archive second.
disableWritesStoreFirst(path, newJson, newDisabled) ==
    writeJsonFileAtomic(path, newJson) \o writeJsonFileAtomic(MCP_DISABLED_PATH, newDisabled)

\* The two writes of disableMcp: the archive first, the active store second.
disableWrites(path, newJson, newDisabled) ==
    writeJsonFileAtomic(MCP_DISABLED_PATH, newDisabled) \o writeJsonFileAtomic(path, newJson)

\* A disableMcp that takes its backup before it looks for the item.
DisableMcpBackupFirst(name, source, projectPath) ==
    LET c == Call("disableMcp", name, source, projectPath,
                  ArchiveKey(source, projectPath, name), Running)
        path == StorePath(source)
        json == readJsonFile(files[path], StoreDefault(source))
        servers == Servers(json, source, projectPath)
        disabledJson == readJsonFile(files[MCP_DISABLED_PATH], DisabledDefault)
        entry == DisabledEntry(servers[name], source,
                               IF source = "local" THEN projectPath ELSE NoPath, now)
        newDisabled == [disabledJson EXCEPT
                          !.disabled = Put(@, ArchiveKey(source, projectPath, name), entry)]
        newJson == WithServers(json, source, projectPath, Del(servers, name))
    IN
    /\ Idle
    /\ UNCHANGED <<files, tmp>>
    /\ \E outcome \in BackupOutcomes(files[path]) :
        /\ backups' = createBackup(backups, path, files[path], now, outcome)
        /\ IF outcome # "ok"
           THEN Return([c EXCEPT !.result = Failure("io")])
           ELSE IF source = "local" /\ projectPath = NoPath
           THEN Return([c EXCEPT !.result = Failure("Invalid source or missing project path")])
           ELSE IF name \notin DOMAIN servers
           THEN Return([c EXCEPT !.result = Failure("not found")])
           ELSE Continue(c, disableWrites(path, newJson, newDisabled))

DisableMcp(name, source, projectPath) ==
    LET c == Call("disableMcp", name, source, projectPath,
                  ArchiveKey(source, projectPath, name), Running)
        path == StorePath(source)
        json == readJsonFile(files[path], StoreDefault(source))
        servers == Servers(json, source, projectPath)
        disabledJson == readJsonFile(files[MCP_DISABLED_PATH], DisabledDefault)
        entry == DisabledEntry(servers[name], source,
                               IF source = "local" THEN projectPath ELSE NoPath, now)
        newDisabled == [disabledJson EXCEPT
                          !.disabled = Put(@, ArchiveKey(source, projectPath, name), entry)]
        newJson == WithServers(json, source, projectPath, Del(servers, name))
    IN
    /\ Idle
    /\ UNCHANGED <<files, tmp>>
    /\ IF source = "local" /\ projectPath = NoPath
       THEN /\ Reject([c EXCEPT !.result = Failure("Invalid source or missing project path")])
            /\ UNCHANGED backups
       ELSE IF name \notin DOMAIN servers
       THEN /\ Reject([c EXCEPT !.result = Failure("not found")])
            /\ UNCHANGED backups
       ELSE \E outcome \in BackupOutcomes(files[path]) :
            /\ backups' = createBackup(backups, path, files[path], now, outcome)
            /\ IF outcome # "ok"
               THEN Return([c EXCEPT !.result = Failure("io")])
               ELSE Continue(c, disableWrites(path, newJson, newDisabled))

----------------------------------------------------------------------------
(* enableMcp *)

\* The archive first, the active store second.
enableWritesArchiveFirst(path, newJson, newDisabled) ==
    writeJsonFileAtomic(MCP_DISABLED_PATH, newDisabled) \o writeJsonFileAtomic(path, newJson)

\* The two writes of enableMcp: the active store first, the archive second.
enableWrites(path, newJson, newDisabled) ==
    writeJsonFileAtomic(path, newJson) \o writeJsonFileAtomic(MCP_DISABLED_PATH, newDisabled)

\* "Check if already exists": an item of that name is live in the destination.
alreadyExists(servers, name) == name \in DOMAIN servers

EnableMcp(disabledKey) ==
    LET disabledJson == readJsonFile(files[MCP_DISABLED_PATH], DisabledDefault)
        entry == disabledJson.disabled[disabledKey]
        source == entry.source
        projectPath == entry.projectPath
        name == EnableName(source, disabledKey)
        c == Call("enableMcp", name, source, projectPath, disabledKey, Running)
        path == StorePath(source)
        json == readJsonFile(files[path], StoreDefault(source))
        servers == Servers(json, source, projectPath)
        newJson == WithServers(json, source, projectPath, Put(servers, name, entry.config))
        newDisabled == [disabledJson EXCEPT !.disabled = Del(@, disabledKey)]
    IN
    /\ Idle
    /\ UNCHANGED <<files, tmp>>
    /\ IF disabledKey \notin DOMAIN disabledJson.disabled
       THEN /\ Reject(Call("enableMcp", <<>>, "", NoPath, disabledKey, Failure("not found")))
            /\ UNCHANGED backups
       ELSE IF source = "local" /\ projectPath = NoPath
       THEN /\ Reject([c EXCEPT !.result = Failure("Invalid source in disabled entry")])
            /\ UNCHANGED backups
       ELSE IF alreadyExists(servers, name)
       THEN /\ Reject([c EXCEPT !.result = Failure("already exists")])
            /\ UNCHANGED backups
       ELSE \E outcome \in BackupOutcomes(files[path]) :
            /\ backups' = createBackup(backups, path, files[path], now, outcome)
            /\ IF outcome # "ok"
               THEN Return([c EXCEPT !.result = Failure("io")])
               ELSE Continue(c, enableWrites(path, newJson, newDisabled))

----------------------------------------------------------------------------
(* loadMCPs *)

NoMetadata == [disabledAt |-> 0, reason |-> ""]

\* One MCPServer of the list.
MCPServer(name, config, enabled, source, projectPath, disabledKey, metadata) ==
    [name |-> name, config |-> config, enabled |-> enabled, source |-> source,
     projectPath |-> projectPath, disabledKey |-> disabledKey, metadata |-> metadata]

\* The key under which loadMCPs puts a disabled entry into its map.
DisabledMapKey(entry, displayName) ==
    IF entry.source = "local"
    THEN <<"disabled", ":", "local", ":">> \o entry.projectPath \o <<":">> \o displayName
    ELSE <<"disabled", ":", entry.source, ":">> \o displayName

\* Every mcpMap.set(key, server) that loadMCPs makes on the files f.
MapSets(f) ==
    LET claudeJson == readJsonFile(f[CLAUDE_JSON_PATH], ClaudeDefault)
        mcpJson == readJsonFile(f[MCP_JSON_PATH], McpDefault)
        disabledJson == readJsonFile(f[MCP_DISABLED_PATH], DisabledDefault)
    IN
    {[key |-> UserKey(n),
      server |-> MCPServer(n, claudeJson.mcpServers[n], TRUE, "user", NoPath, <<>>, NoMetadata)]
        : n \in DOMAIN claudeJson.mcpServers}
    \cup UNION {
        {[key |-> LocalKey(p, n),
          server |-> MCPServer(n, claudeJson.projects[p][n], TRUE, "local", p, <<>>, NoMetadata)]
            : n \in DOMAIN claudeJson.projects[p]} : p \in DOMAIN claudeJson.projects}
    \cup {[key |-> McpJsonKey(n),
           server |-> MCPServer(n, mcpJson.mcpServers[n], TRUE, "mcp.json", NoPath, <<>>, NoMetadata)]
            : n \in {m \in DOMAIN mcpJson.mcpServers : m \notin DOMAIN claudeJson.mcpServers}}
    \cup {[key |-> DisabledMapKey(disabledJson.disabled[k], LastPart(k)),
           server |-> MCPServer(LastPart(k), disabledJson.disabled[k].config, FALSE, "disabled",
                                disabledJson.disabled[k].projectPath, k,
                                disabledJson.disabled[k].metadata)]
            : k \in DOMAIN disabledJson.disabled}

\* The values of mcpMap at the end: one server per key. Of two sets of one key the later
\* one stays, and which one is later is the order of the keys in the file, which the
\* model does not keep: either can stay.
McpMaps(f) ==
    {{c.server : c \in C} :
        C \in {D \in SUBSET MapSets(f) :
                 \A k \in {c.key : c \in MapSets(f)} :
                    Cardinality({c \in D : c.key = k}) = 1}}

\* a.localeCompare(b) < 0, on the characters of the model
CharRank(ch) ==
    CASE ch = ":" -> 0 [] ch = "a" -> 1 [] ch = "b" -> 2 [] ch = "p" -> 3
      [] ch = "q" -> 4 [] OTHER -> 5

RECURSIVE NameBefore(_, _)
NameBefore(a, b) ==
    IF b = <<>> THEN FALSE
    ELSE IF a = <<>> THEN TRUE
    ELSE IF Head(a) # Head(b) THEN CharRank(Head(a)) < CharRank(Head(b))
    ELSE NameBefore(Tail(a), Tail(b))

\* { user: 0, local: 1, 'mcp.json': 2, disabled: 3 }
sourcePriority(source) ==
    CASE source = "user" -> 0 [] source = "local" -> 1 [] source = "mcp.json" -> 2 [] OTHER -> 3

\* (sourcePriority[source] || 99): 0 is falsy
PriorityOr99(source) == IF sourcePriority(source) = 0 THEN 99 ELSE sourcePriority(source)

\* The sort comparator does not put b before a.
NotAfter(a, b) ==
    IF a.name # b.name THEN NameBefore(a.name, b.name)
    ELSE PriorityOr99(a.source) <= PriorityOr99(b.source)

\* The lists that hold the servers of S, sorted by the comparator; servers that compare
\* equal keep the order they were put into the map in, which is the order of the keys in
\* the files: any order of them.
RECURSIVE SortedLists(_)
SortedLists(S) ==
    IF S = {} THEN {<<>>}
    ELSE UNION {{<<m>> \o t : t \in SortedLists(S \ {m})}
                  : m \in {x \in S : \A y \in S : NotAfter(x, y)}}

\* A loader that lists nothing as soon as one of its files does not parse.
loadMCPsAllOrNothing(f) ==
    IF \E p \in JsonPaths : f[p].st = "corrupt" THEN {<<>>}
    ELSE UNION {SortedLists(M) : M \in McpMaps(f)}

\* The lists loadMCPs can return on the files f.
loadMCPs(f) == UNION {SortedLists(M) : M \in McpMaps(f)}

LoadMcps ==
    /\ todo = <<>>
    /\ \E list \in loadMCPs(files) : mcps' = list
    /\ UNCHANGED <<watch, app>>
    /\ call' = [FileCall("loadMCPs", NoPath, NoPath, FALSE) EXCEPT !.result = Success]
    /\ prev' = Previous
    /\ UNCHANGED <<files, tmp, backups, todo, now>>

----------------------------------------------------------------------------
(* toggleAllMcps: loadMCPs, then disableMcp or enableMcp for one item after the other,
   here with no file-system call failing *)

\* The files and temporary files after a file-system call that completes.
After(fs, step) ==
    CASE step.op = "writeTmp" -> [fs EXCEPT !.tmp[step.path] = step.data]
      [] step.op = "rename" ->
            [fs EXCEPT !.files[step.path] = fs.tmp[step.path], !.tmp[step.path] = Absent]
      [] step.op = "write" -> [fs EXCEPT !.files[step.path] = step.data]
      [] step.op \in {"unlink", "rm"} -> [fs EXCEPT !.files[step.path] = Absent]
      [] OTHER ->
            [fs EXCEPT !.files[step.dest] = fs.files[step.path], !.files[step.path] = Absent]

RECURSIVE AfterAll(_, _)
AfterAll(fs, steps) ==
    IF steps = <<>> THEN fs ELSE AfterAll(After(fs, Head(steps)), Tail(steps))

\* What a handler leaves: files, temporary files, backups, clock, and its result.
Left(st, fs, dir, ticks, result) ==
    [files |-> fs.files, tmp |-> fs.tmp, backups |-> dir, now |-> st.now + ticks,
     result |-> result]

\* disableMcp(name, source, projectPath) on the state st, to its end.
disableRun(st, name, source, projectPath) ==
    LET path == StorePath(source)
        json == readJsonFile(st.files[path], StoreDefault(source))
        servers == Servers(json, source, projectPath)
        disabledJson == readJsonFile(st.files[MCP_DISABLED_PATH], DisabledDefault)
        entry == DisabledEntry(servers[name], source,
                               IF source = "local" THEN projectPath ELSE NoPath, st.now)
        newDisabled == [disabledJson EXCEPT
                          !.disabled = Put(@, ArchiveKey(source, projectPath, name), entry)]
        newJson == WithServers(json, source, projectPath, Del(servers, name))
    IN IF source = "local" /\ projectPath = NoPath
       THEN Left(st, st, st.backups, 0, Failure("Invalid source or missing project path"))
       ELSE IF name \notin DOMAIN servers
       THEN Left(st, st, st.backups, 0, Failure("not found"))
       ELSE Left(st, AfterAll(st, disableWrites(path, newJson, newDisabled)),
                 createBackup(st.backups, path, st.files[path], st.now, "ok"),
                 1, Success)

\* disableMcp(name, 'user') on the state st, to its end.
disableUserRun(st, name) == disableRun(st, name, "user", NoPath)

\* enableMcp(disabledKey) on the state st, to its end.
enableRun(st, disabledKey) ==
    LET disabledJson == readJsonFile(st.files[MCP_DISABLED_PATH], DisabledDefault)
        entry == disabledJson.disabled[disabledKey]
        source == entry.source
        projectPath == entry.projectPath
        name == EnableName(source, disabledKey)
        path == StorePath(source)
        json == readJsonFile(st.files[path], StoreDefault(source))
        servers == Servers(json, source, projectPath)
        newJson == WithServers(json, source, projectPath, Put(servers, name, entry.config))
        newDisabled == [disabledJson EXCEPT !.disabled = Del(@, disabledKey)]
    IN IF disabledKey \notin DOMAIN disabledJson.disabled
       THEN Left(st, st, st.backups, 0, Failure("not found"))
       ELSE IF source = "local" /\ projectPath = NoPath
       THEN Left(st, st, st.backups, 0, Failure("Invalid source in disabled entry"))
       ELSE IF alreadyExists(servers, name)
       THEN Left(st, st, st.backups, 0, Failure("already exists"))
       ELSE Left(st, AfterAll(st, enableWrites(path, newJson, newDisabled)),
                 createBackup(st.backups, path, st.files[path], st.now, "ok"),
                 1, Success)

\* The state a handler call starts from.
Here == [files |-> files, tmp |-> tmp, backups |-> backups, now |-> now, result |-> Success]

\* An enableMcp that restores to the source and project the caller names.
enableRunTo(st, disabledKey, source, projectPath) ==
    LET disabledJson == readJsonFile(st.files[MCP_DISABLED_PATH], DisabledDefault)
        entry == disabledJson.disabled[disabledKey]
        name == EnableName(source, disabledKey)
        path == StorePath(source)
        json == readJsonFile(st.files[path], StoreDefault(source))
        servers == Servers(json, source, projectPath)
        newJson == WithServers(json, source, projectPath, Put(servers, name, entry.config))
        newDisabled == [disabledJson EXCEPT !.disabled = Del(@, disabledKey)]
    IN IF disabledKey \notin DOMAIN disabledJson.disabled
       THEN Left(st, st, st.backups, 0, Failure("not found"))
       ELSE IF source \notin Sources \/ (source = "local" /\ projectPath = NoPath)
       THEN Left(st, st, st.backups, 0, Failure("Invalid source in disabled entry"))
       ELSE IF alreadyExists(servers, name)
       THEN Left(st, st, st.backups, 0, Failure("already exists"))
       ELSE Left(st, AfterAll(st, enableWrites(path, newJson, newDisabled)),
                 createBackup(st.backups, path, st.files[path], st.now, "ok"),
                 1, Success)

\* A toggleMcp that trusts the caller about where the item came from.
toggleMcpTrusting(st, name, enabled, source, projectPath, disabledKey) ==
    IF enabled
    THEN IF disabledKey = <<>>
         THEN Left(st, st, st.backups, 0, Failure("Missing disabled key for enable operation"))
         ELSE enableRunTo(st, disabledKey, source, projectPath)
    ELSE IF source \in {"", "disabled"}
         THEN Left(st, st, st.backups, 0, Failure("Invalid source for disable operation"))
         ELSE disableRun(st, name, source, projectPath)

\* toggleMcp(name, enabled, source, projectPath, disabledKey) on the state st, to its
\* end; an argument that is left out is "" or <<>>.
toggleMcp(st, name, enabled, source, projectPath, disabledKey) ==
    IF enabled
    THEN IF disabledKey = <<>>
         THEN Left(st, st, st.backups, 0, Failure("Missing disabled key for enable operation"))
         ELSE enableRun(st, disabledKey)
    ELSE IF source \in {"", "disabled"}
         THEN Left(st, st, st.backups, 0, Failure("Invalid source for disable operation"))
         ELSE disableRun(st, name, source, projectPath)

\* mcp:toggle, with no file-system call failing.  The call keeps the arguments of the
\* caller.
ToggleMcp(name, enabled, source, projectPath, disabledKey) ==
    /\ Idle
    /\ LET end == toggleMcp(Here, name, enabled, source, projectPath, disabledKey)
       IN /\ files' = end.files
          /\ tmp' = end.tmp
          /\ backups' = end.backups
          /\ now' = end.now
          /\ call' = [Call("toggleMcp", name, source, projectPath, disabledKey, end.result)
                          EXCEPT !.dest = IF enabled THEN NoPath ELSE MCP_DISABLED_PATH]
    /\ prev' = Previous
    /\ todo' = <<>>
    /\ UNCHANGED <<mcps, watch, app>>

\* new Date(): the clock has millisecond resolution, and a call that comes within the
\* millisecond of the call before it reads the value that call read.
ClockAt(sameMs) == IF sameMs /\ now > 1 THEN now - 1 ELSE now

\* mcp:toggle called at the clock reading ClockAt(sameMs), with no file-system call
\* failing.
ToggleMcpAt(name, enabled, source, projectPath, disabledKey, sameMs) ==
    /\ Idle
    /\ LET end == toggleMcp([Here EXCEPT !.now = ClockAt(sameMs)],
                            name, enabled, source, projectPath, disabledKey)
       IN /\ files' = end.files
          /\ tmp' = end.tmp
          /\ backups' = end.backups
          /\ now' = IF end.now > now THEN end.now ELSE now
          /\ call' = [Call("toggleMcp", name, source, projectPath, disabledKey, end.result)
                          EXCEPT !.dest = IF enabled THEN NoPath ELSE MCP_DISABLED_PATH]
    /\ prev' = Previous
    /\ todo' = <<>>
    /\ UNCHANGED <<mcps, watch, app>>

----------------------------------------------------------------------------
(* The renderer: the list of MCPs that App caches, and handleToggleMcp *)

\* The renderer before config:load has returned.
NoApp == [mcps |-> <<>>, before |-> <<>>, toggled |-> 0, phase |-> "idle"]

\* The optimistic update of handleToggleMcp: prev.mcps.map(m => m.name === name ? ... : m)
optimisticUpdate(list, name, enabled, source) ==
    [i \in DOMAIN list |->
        IF list[i].name = name
        THEN [list[i] EXCEPT !.enabled = enabled,
                             !.source = IF enabled
                                        THEN (IF source = "disabled" THEN "user" ELSE source)
                                        ELSE "disabled"]
        ELSE list[i]]

\* The rollback of handleToggleMcp: m.name === name ? { ...m, enabled: !enabled } : m
rollback(list, name, enabled) ==
    [i \in DOMAIN list |->
        IF list[i].name = name THEN [list[i] EXCEPT !.enabled = ~enabled] ELSE list[i]]

\* loadConfig: config:load returns and App caches the list.
LoadConfig ==
    /\ todo = <<>>
    /\ app.phase # "optimistic"
    /\ \E list \in loadMCPs(files) : app' = [NoApp EXCEPT !.mcps = list]
    /\ UNCHANGED <<files, tmp, backups, todo, call, prev, now, mcps, watch>>

\* handleToggleMcp up to its await, called by the list for its i-th entry with the
\* fields of the entry and the opposite of its enabled flag.
HandleToggleMcp(i) ==
    /\ Idle
    /\ app.phase # "optimistic"
    /\ i \in DOMAIN app.mcps
    /\ app' = [mcps |-> optimisticUpdate(app.mcps, app.mcps[i].name, ~app.mcps[i].enabled,
                                         app.mcps[i].source),
               before |-> app.mcps, toggled |-> i, phase |-> "optimistic"]
    /\ UNCHANGED <<files, tmp, backups, todo, call, prev, now, mcps, watch>>

\* window.electronAPI.toggleMcp returns and handleToggleMcp goes on: mcp:toggle has run,
\* with no file-system call failing or with the copy of its backup failing (ioFails),
\* and a failure is rolled back in the list.
ToggleMcpReturns(ioFails) ==
    /\ todo = <<>>
    /\ app.phase = "optimistic"
    /\ LET m == app.before[app.toggled]
           end == IF ioFails THEN Left(Here, Here, backups, 0, Failure("io"))
                  ELSE toggleMcp(Here, m.name, ~m.enabled, m.source, m.projectPath,
                                 m.disabledKey)
       IN /\ files' = end.files
          /\ tmp' = end.tmp
          /\ backups' = end.backups
          /\ now' = end.now
          /\ call' = [Call("toggleMcp", m.name, m.source, m.projectPath, m.disabledKey,
                           end.result)
                          EXCEPT !.dest = IF m.enabled THEN MCP_DISABLED_PATH ELSE NoPath]
          /\ app' = IF end.result.success THEN [app EXCEPT !.phase = "done"]
                    ELSE [app EXCEPT !.mcps = rollback(app.mcps, m.name, ~m.enabled),
                                     !.phase = "rolledBack"]
    /\ prev' = Previous
    /\ UNCHANGED <<todo, mcps, watch>>

\* s.startsWith(prefix), on path components
StartsWith(s, prefix) == Len(s) >= Len(prefix) /\ SubSeq(s, 1, Len(prefix)) = prefix

\* k.endsWith(`:${name}`)
EndsWithColonName(k, name) ==
    /\ Len(k) >= Len(name) + 1
    /\ SubSeq(k, Len(k) - Len(name), Len(k)) = <<":">> \o name

\* A search that takes the key of any origin that ends with the name.
FoundKeysAnyOrigin(st, name) ==
    {k \in DOMAIN readJsonFile(st.files[MCP_DISABLED_PATH], DisabledDefault).disabled :
        EndsWithColonName(k, name)}

\* The keys that Object.keys(disabledJson.disabled).find(...) can return for an item
\* called name: the first match in the order of the keys in the file, which is any match.
FoundKeys(st, name) ==
    {k \in DOMAIN readJsonFile(st.files[MCP_DISABLED_PATH], DisabledDefault).disabled :
        \/ StartsWith(k, <<"user", ":">>) /\ EndsWithColonName(k, name)
        \/ k = UserKey(name)}

\* The filter of toggleAllMcps.
userMcps(list, enabled) ==
    SelectSeq(list, LAMBDA mcp : \/ enabled /\ mcp.source = "disabled"
                                 \/ ~enabled /\ mcp.source = "user")

\* The loop of toggleAllMcps over the items still to do: the states it can end in, each
\* with the result of the whole call and, when an item failed, the item's name.
RECURSIVE toggleLoop(_, _, _)
toggleLoop(st, items, enabled) ==
    IF items = <<>> THEN {[st EXCEPT !.result = Success] @@ [failed |-> <<>>]}
    ELSE LET mcp == Head(items)
             runs == IF enabled
                     THEN {enableRun(st, k) : k \in FoundKeys(st, mcp.name)}
                     ELSE {disableUserRun(st, mcp.name)}
         IN IF runs = {} THEN toggleLoop(st, Tail(items), enabled)
            ELSE UNION {IF r.result.success
                        THEN toggleLoop(r, Tail(items), enabled)
                        ELSE {[r EXCEPT !.result = Failure("Failed to toggle")]
                                @@ [failed |-> mcp.name]}
                          : r \in runs}

\* toggleAllMcps(enabled), from its loadMCPs to its return. The call keeps the name of
\* the item its error message names.
ToggleAllMcps(enabled) ==
    /\ Idle
    /\ \E list \in loadMCPs(files) :
        /\ mcps' = list
        /\ \E end \in toggleLoop([files |-> files, tmp |-> tmp, backups |-> backups,
                                  now |-> now, result |-> Success],
                                 userMcps(list, enabled), enabled) :
            /\ files' = end.files
            /\ tmp' = end.tmp
            /\ backups' = end.backups
            /\ now' = end.now
            /\ call' = [Call("toggleAllMcps", end.failed, "user", NoPath, <<>>, end.result)
                            EXCEPT !.dest = IF enabled THEN CLAUDE_JSON_PATH
                                            ELSE MCP_DISABLED_PATH]
    /\ prev' = Previous
    /\ todo' = <<>>
    /\ UNCHANGED <<watch, app>>

----------------------------------------------------------------------------
(* Agents and skills: a file of an agents directory holds an agent text, a folder of
   a skills directory holds its SKILL.md *)

AgentText(frontmatter, model, body) ==
    [frontmatter |-> frontmatter, model |-> model, body |-> body]
SkillFolder(skillMd) == [skillMd |-> skillMd]
\* A folder with nothing in it.
EmptyDir == [st |-> "emptydir", data |-> <<>>]

\* filename.endsWith('.md')
EndsWithMd(filename) == filename = "reviewer.md"

\* content.match(/^---\n([\s\S]*?)\n---/)
HasFrontmatter(content) == content.st = "ok" /\ content.data.frontmatter


\* toggleAgent: no try/catch around the rename.
ToggleAgent(filename, enabled) ==
    LET sourcePath == AgentPath(filename, ~enabled)
        destPath == AgentPath(filename, enabled)
        c == FileCall("toggleAgent", sourcePath, destPath, FALSE)
    IN
    /\ Idle
    /\ UNCHANGED <<files, tmp, backups>>
    /\ IF files[sourcePath].st = "absent"
       THEN Reject([c EXCEPT !.result = Failure("Agent file not found")])
       ELSE Continue(c, <<Move(sourcePath, destPath)>>)

\* toggleSkill: the rename of a folder onto a folder that is not empty throws at once
\* (ENOTEMPTY), and the catch returns it.
ToggleSkill(name, enabled) ==
    LET sourcePath == SkillPath(name, ~enabled)
        destPath == SkillPath(name, enabled)
        c == FileCall("toggleSkill", sourcePath, destPath, TRUE)
    IN
    /\ Idle
    /\ UNCHANGED <<files, tmp, backups>>
    /\ IF files[sourcePath].st = "absent"
       THEN Reject([c EXCEPT !.result = Failure("Skill folder not found")])
       ELSE IF files[destPath].st \notin {"absent", "emptydir"}
       THEN Reject([c EXCEPT !.result = Failure("ENOTEMPTY")])
       ELSE Continue(c, <<Move(sourcePath, destPath)>>)

\* updateAgentModel: no backup, no try/catch, the file is written in place.
UpdateAgentModel(filename, model, isEnabled) ==
    LET filePath == AgentPath(filename, isEnabled)
        c == FileCall("updateAgentModel", filePath, NoPath, FALSE)
    IN
    /\ Idle
    /\ UNCHANGED <<files, tmp, backups>>
    /\ IF files[filePath].st = "absent"
       THEN Reject([c EXCEPT !.result = Failure("Agent file not found")])
       ELSE IF ~EndsWithMd(filename)
       THEN Reject([c EXCEPT !.result = Failure("Model can only be changed for .md agents")])
       ELSE IF ~HasFrontmatter(files[filePath])
       THEN Reject([c EXCEPT !.result = Failure("No frontmatter found in agent file")])
       ELSE Continue(c, <<WriteDirect(filePath,
                            Ok([files[filePath].data EXCEPT !.model = model]))>>)

\* agent:writeContent
AgentWriteContent(filename, content, isEnabled) ==
    LET filePath == AgentPath(filename, isEnabled)
        c == FileCall("agent:writeContent", filePath, NoPath, TRUE)
    IN
    /\ Idle
    /\ UNCHANGED <<files, tmp>>
    /\ \E outcome \in RawOutcomes(files[filePath]) :
        /\ backups' = rawBackup(backups, filename, files[filePath], now, outcome)
        /\ IF outcome # "ok"
           THEN Return([c EXCEPT !.result = Failure("io")])
           ELSE Continue(c, <<WriteDirect(filePath, Ok(content))>>)

\* mcp:writeConfig; content: the text, as the file content it makes (not "ok": JSON.parse
\* of it throws)
McpWriteConfig(type, content) ==
    LET filePath == IF type = "claude" THEN CLAUDE_JSON_PATH ELSE MCP_JSON_PATH
        c == FileCall("mcp:writeConfig", filePath, NoPath, TRUE)
    IN
    /\ Idle
    /\ UNCHANGED <<files, tmp>>
    /\ IF content.st # "ok"
       THEN /\ Reject([c EXCEPT !.result = Failure("Invalid JSON")])
            /\ UNCHANGED backups
       ELSE \E outcome \in RawOutcomes(files[filePath]) :
            /\ backups' = rawBackup(backups, BaseName(filePath), files[filePath], now, outcome)
            /\ IF outcome # "ok"
               THEN Return([c EXCEPT !.result = Failure("io")])
               ELSE Continue(c, <<WriteDirect(filePath, content)>>)

\* writeSkillContent; rawPath: the folderPath argument, which the test looks at as it is
\* and the file system resolves. The write of SKILL.md in a folder that does not exist
\* throws at once.
WriteSkillContent(rawPath, content) ==
    LET folderPath == Normalize(rawPath)
        c == FileCall("writeSkillContent", folderPath, NoPath, TRUE)
        skillMdExists == files[folderPath].st \notin {"absent", "emptydir"}
    IN
    /\ Idle
    /\ UNCHANGED <<files, tmp>>
    /\ IF ~StartsWith(rawPath, SKILLS_DIR)
       THEN /\ Reject([c EXCEPT !.result = Failure("Can only edit user skills")])
            /\ UNCHANGED backups
       ELSE IF files[folderPath].st = "absent"
       THEN /\ Reject([c EXCEPT !.result = Failure("ENOENT")])
            /\ UNCHANGED backups
       ELSE \E outcome \in RawOutcomes(IF skillMdExists THEN files[folderPath] ELSE Absent) :
            /\ backups' = rawBackup(backups, "SKILL.md",
                                    IF skillMdExists THEN files[folderPath] ELSE Absent,
                                    now, outcome)
            /\ IF outcome # "ok"
               THEN Return([c EXCEPT !.result = Failure("io")])
               ELSE Continue(c, <<WriteDirect(folderPath, Ok(SkillFolder(content)))>>)

----------------------------------------------------------------------------
(* Backups: createManualBackup and restoreBackup *)

\* createManualBackup: a snapshot of ~/.claude.json, then one of mcp.json.
CreateManualBackup ==
    LET c == FileCall("createManualBackup", NoPath, NoPath, TRUE)
        claude == files[CLAUDE_JSON_PATH]
        mcp == files[MCP_JSON_PATH]
    IN
    /\ Idle
    /\ UNCHANGED <<files, tmp>>
    /\ \E o1 \in BackupOutcomes(claude), o2 \in BackupOutcomes(mcp) :
        LET d1 == createBackup(backups, CLAUDE_JSON_PATH, claude, now, o1)
        IN /\ backups' = IF o1 # "ok" THEN d1
                         ELSE createBackup(d1, MCP_JSON_PATH, mcp, now, o2)
           /\ Return([c EXCEPT !.result =
                        IF o1 # "ok" \/ o2 # "ok" THEN Failure("io")
                        ELSE IF claude.st = "absent" /\ mcp.st = "absent"
                        THEN Failure("Failed to create backup (files may not exist)")
                        ELSE Success])

\* restoreBackup of the i-th file of the backups directory (0: of a path that names no
\* file). A sidecar that is missing or cut short ends the call the same way. The copy
\* of a backup that the cleanup of the snapshot has deleted throws at once (ENOENT).
RestoreBackup(i) ==
    LET b == IF i \in DOMAIN backups THEN backups[i] ELSE NoBackup
        originalPath == b.originalPath
        c == [FileCall("restoreBackup", originalPath, NoPath, TRUE) EXCEPT !.backup = b]
    IN
    /\ Idle
    /\ UNCHANGED <<files, tmp>>
    /\ IF i \notin DOMAIN backups
       THEN /\ Reject([c EXCEPT !.result = Failure("Backup file not found")])
            /\ UNCHANGED backups
       ELSE IF ~b.hasMeta
       THEN /\ Reject([c EXCEPT !.result = Failure("Backup metadata not found")])
            /\ UNCHANGED backups
       ELSE IF b.content.st # "ok"
       THEN /\ Reject([c EXCEPT !.result = Failure("Invalid JSON")])
            /\ UNCHANGED backups
       ELSE \E outcome \in BackupOutcomes(files[originalPath]) :
            /\ backups' = createBackup(backups, originalPath, files[originalPath],
                                       now, outcome)
            /\ IF outcome # "ok"
               THEN Return([c EXCEPT !.result = Failure("io")])
               ELSE IF \A j \in DOMAIN backups' : backups'[j] # b
               THEN Return([c EXCEPT !.result = Failure("ENOENT")])
               ELSE Continue(c, <<WriteDirect(originalPath, b.content)>>)

\* backups.sort((a, b) => b.timestamp - a.timestamp): newest first, files of one
\* timestamp in the order they had.
RECURSIVE SortNewestFirst(_)
SortNewestFirst(seq) ==
    IF seq = <<>> THEN <<>>
    ELSE LET i == CHOOSE j \in DOMAIN seq :
                    /\ \A k \in DOMAIN seq : seq[k].ts <= seq[j].ts
                    /\ \A k \in 1..(j - 1) : seq[k].ts < seq[j].ts
         IN <<seq[i]>> \o SortNewestFirst(SubSeq(seq, 1, i - 1)
                                           \o SubSeq(seq, i + 1, Len(seq)))

\* listBackups: the files of the backups directory that are not sidecars and have a
\* sidecar that parses, newest first.
listBackups(dir) == SortNewestFirst(SelectSeq(dir, LAMBDA b : b.hasMeta))

----------------------------------------------------------------------------
(* Deleting: deleteMcp, deleteAgent and deleteSkill *)

\* The copy deleteAgent (<filename>.deleted-<ms>) and deleteSkill (the folder
\* skill-<name>-deleted-<ms>) make in the backups directory: no sidecar, no cleanup.
\* outcome "ok"; "copyFails" (nothing is written); "copyTorn" (the recursive copy of a
\* folder throws after the folder of the copy was made).
deletedBackup(dir, base, kind, content, ts, outcome) ==
    IF outcome = "copyFails" THEN dir
    ELSE CopyInto(dir, Backup(base, kind, ts,
                              IF outcome = "copyTorn" THEN Partial ELSE content,
                              NoPath, FALSE))

\* The store file a deleteMcp call works on.
DeletePath(source, disabledKey) ==
    IF source = "disabled" /\ disabledKey # <<>> THEN MCP_DISABLED_PATH
    ELSE StorePath(source)

\* The store json without the item.
deleteFrom(json, name, source, projectPath, disabledKey) ==
    IF source = "disabled" /\ disabledKey # <<>>
    THEN [json EXCEPT !.disabled = Del(@, disabledKey)]
    ELSE WithServers(json, source, projectPath,
                     Del(Servers(json, source, projectPath), name))

\* The item is in the store json.
deleteFinds(json, name, source, projectPath, disabledKey) ==
    IF source = "disabled" /\ disabledKey # <<>>
    THEN disabledKey \in DOMAIN json.disabled
    ELSE name \in DOMAIN Servers(json, source, projectPath)

\* A deleteMcp that writes the store without a createBackup call.
DeleteMcpNoBackup(name, source, projectPath, disabledKey) ==
    LET c == [Call("deleteMcp", name, source, projectPath, disabledKey, Running)
                 EXCEPT !.path = DeletePath(source, disabledKey)]
        path == DeletePath(source, disabledKey)
        json == readJsonFile(files[path],
                             IF path = MCP_DISABLED_PATH THEN DisabledDefault
                             ELSE StoreDefault(source))
    IN
    /\ Idle
    /\ UNCHANGED <<files, tmp, backups>>
    /\ IF \/ source \notin Sources \cup {"disabled"}
          \/ source = "disabled" /\ disabledKey = <<>>
          \/ source = "local" /\ projectPath = NoPath
       THEN Reject([c EXCEPT !.result = Failure("Invalid source for delete operation")])
       ELSE IF ~deleteFinds(json, name, source, projectPath, disabledKey)
       THEN Reject([c EXCEPT !.result = Failure("not found")])
       ELSE Continue(c, writeJsonFileAtomic(
                           path, deleteFrom(json, name, source, projectPath, disabledKey)))

\* deleteMcp: the archive entry of disabledKey when source is 'disabled' and a key is
\* given, else the live item of (source, projectPath, name).
DeleteMcp(name, source, projectPath, disabledKey) ==
    LET c == [Call("deleteMcp", name, source, projectPath, disabledKey, Running)
                 EXCEPT !.path = DeletePath(source, disabledKey)]
        path == DeletePath(source, disabledKey)
        json == readJsonFile(files[path],
                             IF path = MCP_DISABLED_PATH THEN DisabledDefault
                             ELSE StoreDefault(source))
    IN
    /\ Idle
    /\ UNCHANGED <<files, tmp>>
    /\ IF \/ source \notin Sources \cup {"disabled"}
          \/ source = "disabled" /\ disabledKey = <<>>
          \/ source = "local" /\ projectPath = NoPath
       THEN /\ Reject([c EXCEPT !.result = Failure("Invalid source for delete operation")])
            /\ UNCHANGED backups
       ELSE IF ~deleteFinds(json, name, source, projectPath, disabledKey)
       THEN /\ Reject([c EXCEPT !.result = Failure("not found")])
            /\ UNCHANGED backups
       ELSE \E outcome \in BackupOutcomes(files[path]) :
            /\ backups' = createBackup(backups, path, files[path], now, outcome)
            /\ IF outcome # "ok"
               THEN Return([c EXCEPT !.result = Failure("io")])
               ELSE Continue(c, writeJsonFileAtomic(
                                   path, deleteFrom(json, name, source, projectPath,
                                                    disabledKey)))

\* deleteAgent: the copy into the backups directory, then the unlink.
DeleteAgent(filename, isEnabled) ==
    LET filePath == AgentPath(filename, isEnabled)
        c == [FileCall("deleteAgent", filePath, NoPath, TRUE) EXCEPT !.name = <<filename>>]
    IN
    /\ Idle
    /\ UNCHANGED <<files, tmp>>
    /\ IF files[filePath].st = "absent"
       THEN /\ Reject([c EXCEPT !.result = Failure("Agent file not found")])
            /\ UNCHANGED backups
       ELSE \E outcome \in {"ok", "copyFails"} :
            /\ backups' = deletedBackup(backups, filename, "deleted", files[filePath],
                                        now, outcome)
            /\ IF outcome # "ok"
               THEN Return([c EXCEPT !.result = Failure("io")])
               ELSE Continue(c, <<Unlink(filePath)>>)

\* deleteSkill: user skills only; the recursive copy of the folder into the backups
\* directory, then the recursive removal.
DeleteSkill(name, source) ==
    LET skillPath == Normalize(SKILLS_DIR \o Components(name))
        c == [FileCall("deleteSkill", skillPath, NoPath, TRUE)
                 EXCEPT !.name = <<name>>, !.source = source]
    IN
    /\ Idle
    /\ UNCHANGED <<files, tmp>>
    /\ IF source # "user"
       THEN /\ Reject([c EXCEPT !.result = Failure("Can only delete user skills")])
            /\ UNCHANGED backups
       ELSE IF files[skillPath].st = "absent"
       THEN /\ Reject([c EXCEPT !.result = Failure("Skill folder not found")])
            /\ UNCHANGED backups
       ELSE \E outcome \in {"ok", "copyFails", "copyTorn"} :
            /\ backups' = deletedBackup(backups, name, "skill-deleted", files[skillPath],
                                        now, outcome)
            /\ IF outcome # "ok"
               THEN Return([c EXCEPT !.result = Failure("io")])
               ELSE Continue(c, <<RmRecursive(skillPath)>>)

----------------------------------------------------------------------------
(* The file watchers (setupFileWatchers).  Time is counted in tenths of a second. *)

\* setTimeout(..., 300) and the test now - lastNotifiedChange < 500
DEBOUNCE == 3
NOTIFY_GRACE == 5

\* No watcher is set up and no window is open; Date.now() is far from 0, the first
\* value of lastNotifiedChange.
NoWatch ==
    [time |-> NOTIFY_GRACE, lastNotifiedChange |-> 0, fileWatchers |-> {}, queue |-> <<>>,
     timers |-> {}, debounceTimer |-> 0, nextId |-> 1, window |-> 0, windows |-> 0,
     sent |-> <<>>, delivered |-> <<>>, changes |-> <<>>]

\* A file-system event of a watched file: its path, its type, whether a write of the
\* manager caused it, and when.
FsEvent(path, eventType, self, at) ==
    [path |-> path, eventType |-> eventType, self |-> self, at |-> at]

\* What the watchers notice of a file-system call on `step.path': nothing when the
\* file is not watched (a watcher is on the file itself, not on its .tmp sibling).
\* A write in place is a 'change'.  A rename over the file is a 'rename' on some
\* platforms and a 'change' on others, and the watcher, which holds the replaced file,
\* may or may not see the new one afterwards.
Noticed(w, step) ==
    IF step.path \notin w.fileWatchers \/ step.op \notin {"write", "rename"} THEN {w}
    ELSE IF step.op = "write"
    THEN {[w EXCEPT !.queue = Append(@, FsEvent(step.path, "change", TRUE, w.time))]}
    ELSE {[w EXCEPT !.queue = Append(@, FsEvent(step.path, eventType, TRUE, w.time)),
                    !.fileWatchers = @ \ lost]
            : eventType \in {"change", "rename"}, lost \in {{}, {step.path}}}

\* createWindow, then setupFileWatchers: one watcher for each of the three files that
\* exists.
setupFileWatchers(w, f) ==
    [w EXCEPT !.window = w.windows + 1, !.windows = @ + 1,
              !.fileWatchers = {p \in JsonPaths : f[p].st # "absent"}]

\* The pending timer that debounceTimer names, if it is still pending.
Pending(w) == {t \in w.timers : t.id = w.debounceTimer}

\* clearTimeout(debounceTimer) when it is set, then setTimeout
resetTimer(w, e) ==
    [w EXCEPT !.timers = (@ \ Pending(w))
                            \cup {[id |-> w.nextId, due |-> w.time + DEBOUNCE,
                                   filePath |-> e.path,
                                   armedBy |-> UNION {t.armedBy : t \in Pending(w)} \cup {e}]},
              !.debounceTimer = w.nextId,
              !.nextId = @ + 1]

\* The callback of fs.watch for the event e.
onWatchEvent(w, e) ==
    IF e.eventType # "change" THEN w
    ELSE LET seen == [w EXCEPT !.delivered = Append(@, e)]
         IN IF w.time - w.lastNotifiedChange < NOTIFY_GRACE THEN seen
            ELSE resetTimer(seen, e)

\* The event loop is free and runs the callback for the oldest event; a timer that is
\* due runs before it.
Deliver ==
    /\ todo = <<>>
    /\ watch.queue # <<>>
    /\ \A t \in watch.timers : t.due > watch.time
    /\ watch' = onWatchEvent([watch EXCEPT !.queue = Tail(@)], Head(watch.queue))
    /\ UNCHANGED <<files, tmp, backups, todo, call, prev, now, mcps, app>>

\* A debounce timer is due: its callback sets lastNotifiedChange and sends
\* file:external-change with the base name of the file, if there is a window.
TimerFires ==
    /\ todo = <<>>
    /\ \E t \in watch.timers :
        /\ t.due <= watch.time
        /\ watch' = [watch EXCEPT
                        !.timers = @ \ {t},
                        !.lastNotifiedChange = watch.time,
                        !.sent = IF watch.window # 0
                                 THEN Append(@, [fileName |-> BaseName(t.filePath),
                                                 at |-> watch.time, armedBy |-> t.armedBy])
                                 ELSE @]
    /\ UNCHANGED <<files, tmp, backups, todo, call, prev, now, mcps, app>>

\* A tenth of a second passes; callbacks that are due run first.
Tick ==
    /\ todo = <<>>
    /\ watch.queue = <<>>
    /\ \A t \in watch.timers : t.due > watch.time
    /\ watch.time < MaxTime
    /\ watch' = [watch EXCEPT !.time = @ + 1]
    /\ UNCHANGED <<files, tmp, backups, todo, call, prev, now, mcps, app>>

\* Another program writes the file at `path' in place.
ExternalChange(path) ==
    /\ todo = <<>>
    /\ Len(watch.changes) < MaxChanges
    /\ files' = [files EXCEPT ![path] = Ok(DefaultOf(path))]
    /\ watch' = [watch EXCEPT
                    !.changes = Append(@, [path |-> path, at |-> watch.time,
                                           window |-> watch.window]),
                    !.queue = IF path \in watch.fileWatchers
                              THEN Append(@, FsEvent(path, "change", FALSE, watch.time))
                              ELSE @]
    /\ UNCHANGED <<tmp, backups, todo, call, prev, now, mcps, app>>

\* The window is closed: 'closed' sets mainWindow to null and 'window-all-closed'
\* calls cleanupFileWatchers.
CloseWindow ==
    /\ todo = <<>>
    /\ watch.window # 0
    /\ watch' = [watch EXCEPT !.window = 0, !.timers = @ \ Pending(watch),
                              !.debounceTimer = 0, !.fileWatchers = {}]
    /\ UNCHANGED <<files, tmp, backups, todo, call, prev, now, mcps, app>>

\* 'activate' with no window open: createWindow, and no setupFileWatchers.
Activate ==
    /\ todo = <<>>
    /\ watch.window = 0
    /\ watch.windows < MaxWindows
    /\ watch' = [watch EXCEPT !.window = watch.windows + 1, !.windows = @ + 1]
    /\ UNCHANGED <<files, tmp, backups, todo, call, prev, now, mcps, app>>

----------------------------------------------------------------------------
(* The file-system calls of the running handler *)

\* The effect of a file-system call that completes.
Apply(step) ==
    CASE step.op = "writeTmp" ->
            /\ tmp' = [tmp EXCEPT ![step.path] = step.data]
            /\ UNCHANGED files
      [] step.op = "rename" ->
            /\ files' = [files EXCEPT ![step.path] = tmp[step.path]]
            /\ tmp' = [tmp EXCEPT ![step.path] = Absent]
      [] step.op = "write" ->
            /\ files' = [files EXCEPT ![step.path] = step.data]
            /\ UNCHANGED tmp
      [] step.op = "move" ->
            /\ files' = [files EXCEPT ![step.dest] = files[step.path], ![step.path] = Absent]
            /\ UNCHANGED tmp
      [] step.op \in {"unlink", "rm"} ->
            /\ files' = [files EXCEPT ![step.path] = Absent]
            /\ UNCHANGED tmp

\* What a file-system call that fails, or is cut short by a process stop, leaves behind:
\* a write may leave the file it writes partially written (it truncates it, then
\* fills it), a recursive removal may leave a folder with some of its files gone, a
\* rename or an unlink leaves everything as it was.
Torn(step, partial) ==
    CASE step.op = "writeTmp" /\ partial ->
            /\ tmp' = [tmp EXCEPT ![step.path] = Partial]
            /\ UNCHANGED files
      [] step.op = "write" /\ partial ->
            /\ files' = [files EXCEPT ![step.path] = Partial]
            /\ UNCHANGED tmp
      [] step.op = "rm" /\ partial /\ files[step.path].st # "emptydir" ->
            /\ files' = [files EXCEPT ![step.path] = Partial]
            /\ UNCHANGED tmp
      [] OTHER -> UNCHANGED <<files, tmp>>

\* The next file-system call of the handler completes; after the last one the handler
\* returns success.
Step ==
    /\ todo # <<>>
    /\ Apply(Head(todo))
    /\ todo' = Tail(todo)
    /\ call' = IF Tail(todo) = <<>> THEN [call EXCEPT !.result = Success] ELSE call
    /\ \E w \in Noticed(watch, Head(todo)) : watch' = w
    /\ UNCHANGED <<backups, prev, now, mcps, app>>

\* The next file-system call throws; the handler's catch, if it has one, returns a failure.
Fail ==
    /\ todo # <<>>
    /\ \E partial \in BOOLEAN :
          /\ Torn(Head(todo), partial)
          /\ \E w \in IF partial THEN Noticed(watch, Head(todo)) ELSE {watch} : watch' = w
    /\ todo' = <<>>
    /\ call' = [call EXCEPT !.result = IF call.catches THEN Failure("io") ELSE Threw]
    /\ UNCHANGED <<backups, prev, now, mcps, app>>

\* The process stops before or during the next file-system call.
Crash ==
    /\ todo # <<>>
    /\ \E partial \in BOOLEAN : Torn(Head(todo), partial)
    /\ todo' = <<>>
    /\ call' = [call EXCEPT !.result = Crashed]
    /\ UNCHANGED <<backups, prev, now, mcps, watch, app>>

----------------------------------------------------------------------------
(* Initial states *)

Slot(source, projectPath, name) ==
    [source |-> source, projectPath |-> projectPath, name |-> name]

\* Every place an item can live in: (source, project scope, name).
Slots ==
    {Slot(s, NoPath, <<"a">>) : s \in {"user", "mcp.json"}}
    \cup {Slot("local", p, n) : p \in ProjectPaths, n \in Names}

ConfigOf(slot) == [command |-> "npx", args |-> <<slot.source, slot.projectPath, slot.name>>]
OldConfigOf(slot) == [command |-> "old", args |-> <<slot.source, slot.projectPath, slot.name>>]

ServersOf(S, source, projectPath) ==
    [n \in {s.name : s \in {t \in S : t.source = source /\ t.projectPath = projectPath}}
        |-> ConfigOf(Slot(source, projectPath, n))]

ClaudeOf(S) ==
    [mcpServers |-> ServersOf(S, "user", NoPath),
     projects |-> [p \in {s.projectPath : s \in {t \in S : t.source = "local"}}
                     |-> ServersOf(S, "local", p)],
     other |-> [theme |-> "dark"]]

McpOf(S) == [mcpServers |-> ServersOf(S, "mcp.json", NoPath)]

\* The archive that holds the slots of A, each as disableMcp would have written it
\* (old: with the config the item had when it was disabled, which is not the one
\* of the item of that name that is live now).
DisabledOf(A, old) ==
    [version |-> 1,
     disabled |->
        [k \in {ArchiveKey(s.source, s.projectPath, s.name) : s \in A} |->
            LET s == CHOOSE t \in A : ArchiveKey(t.source, t.projectPath, t.name) = k
            IN DisabledEntry(IF old THEN OldConfigOf(s) ELSE ConfigOf(s),
                             s.source, s.projectPath, 0)]]

\* The JSON files with the items of S live and those of A archived; no agents, no skills.
InitFiles(S, A, old) ==
    [p \in AllPaths |->
        CASE p = CLAUDE_JSON_PATH -> Ok(ClaudeOf(S))
          [] p = MCP_JSON_PATH -> Ok(McpOf(S))
          [] p = MCP_DISABLED_PATH -> IF A = {} THEN Absent ELSE Ok(DisabledOf(A, old))
          [] OTHER -> Absent]

\* The items that are live, and those that are archived, in an initial state.  An
\* item that is both was disabled and then added again, with another config, by the user.
InitSets == {{}} \cup {{s} : s \in Slots}

Init ==
    /\ \E S \in InitSets, A \in InitSets :
          files = InitFiles(S, A, S \cap A # {})
    /\ tmp = [p \in JsonPaths |-> Absent]
    /\ backups = <<>>
    /\ todo = <<>>
    /\ call = NoCall
    /\ prev = NoCall
    /\ now = 1
    /\ mcps = <<>>
    /\ watch = NoWatch
    /\ app = NoApp

AllKeys == {ArchiveKey(s.source, s.projectPath, s.name) : s \in Slots}

Next ==
    \/ \E s \in Slots \cup {Slot("local", NoPath, <<"a">>)} :
          DisableMcp(s.name, s.source, s.projectPath)
    \/ \E disabledKey \in AllKeys : EnableMcp(disabledKey)
    \/ Step
    \/ Fail
    \/ Crash

Spec == Init /\ [][Next]_vars

\* What a caller of mcp:toggle can pass for source and projectPath.
CallerSources == Sources \cup {"disabled", ""}
CallerPaths == ProjectPaths \cup {NoPath}

\* mcp:toggle with every combination of arguments.
NextToggle ==
    \/ \E source \in CallerSources \ {""}, projectPath \in {NoPath, <<"p">>} :
          ToggleMcp(<<"a">>, FALSE, source, projectPath, <<>>)
    \/ \E source \in CallerSources \ {"disabled"}, projectPath \in {NoPath, <<"p">>},
          disabledKey \in {UserKey(<<"a">>), McpJsonKey(<<"a">>),
                           LocalKey(<<"p">>, <<"a">>), <<>>} :
          ToggleMcp(<<"a">>, TRUE, source, projectPath, disabledKey)

SpecToggle == Init /\ [][NextToggle]_vars

\* mcp:toggle called again and again, a call within the millisecond of the call before
\* it or later.
NextSameMs ==
    \/ \E s \in {Slot("user", NoPath, <<"a">>), Slot("mcp.json", NoPath, <<"a">>)},
          sameMs \in BOOLEAN :
          ToggleMcpAt(s.name, FALSE, s.source, s.projectPath, <<>>, sameMs)
    \/ \E disabledKey \in {UserKey(<<"a">>), McpJsonKey(<<"a">>)}, sameMs \in BOOLEAN :
          ToggleMcpAt(<<"a">>, TRUE, "", NoPath, disabledKey, sameMs)

SpecSameMs == Init /\ [][NextSameMs]_vars

\* The same handlers over stores of which one JSON file is present and does not parse.
InitCorrupt ==
    /\ \E S \in InitSets, A \in InitSets, broken \in JsonPaths :
          files = [InitFiles(S, A, S \cap A # {}) EXCEPT ![broken] = Corrupt]
    /\ tmp = [p \in JsonPaths |-> Absent]
    /\ backups = <<>>
    /\ todo = <<>>
    /\ call = NoCall
    /\ prev = NoCall
    /\ now = 1
    /\ mcps = <<>>
    /\ watch = NoWatch
    /\ app = NoApp

SpecCorrupt == InitCorrupt /\ [][Next]_vars

----------------------------------------------------------------------------
(* Listing and bulk toggling: loadMCPs and toggleAllMcps over stores that hold one name
   at several places, names with a colon, and at most one file that does not parse *)

UserSets == {{}, {<<"a">>}, {<<"b">>}, {<<"a">>, <<"b">>}, {<<"q", ":", "a">>}}

ArchivedSets ==
    {{},
     {Slot("user", NoPath, <<"a">>)},
     {Slot("user", NoPath, <<"a">>), Slot("user", NoPath, <<"b">>)},
     {Slot("user", NoPath, <<"q", ":", "a">>)},
     {Slot("user", NoPath, <<"a">>), Slot("user", NoPath, <<"q", ":", "a">>)},
     {Slot("mcp.json", NoPath, <<"a">>)},
     {Slot("mcp.json", NoPath, <<"a">>), Slot("user", NoPath, <<"b">>)},
     {Slot("local", <<"p">>, <<"b">>), Slot("user", NoPath, <<"b">>)}}

\* .mcp.json: absent, or "a" with the config that the user-level "a" has, or with another.
McpJsonChoices == {"none", "same", "other"}

ListFiles(U, mcpJson, L, A, broken) ==
    [p \in AllPaths |->
        CASE p = broken -> Corrupt
          [] p = CLAUDE_JSON_PATH ->
                Ok([mcpServers |-> [n \in U |-> ConfigOf(Slot("user", NoPath, n))],
                    projects |-> [q \in L |->
                                    [n \in {<<"a">>} |-> ConfigOf(Slot("local", q, n))]],
                    other |-> [theme |-> "dark"]])
          [] p = MCP_JSON_PATH ->
                IF mcpJson = "none" THEN Absent
                ELSE Ok([mcpServers |->
                            [n \in {<<"a">>} |->
                                ConfigOf(Slot(IF mcpJson = "same" THEN "user" ELSE "mcp.json",
                                              NoPath, n))]])
          [] p = MCP_DISABLED_PATH -> IF A = {} THEN Absent ELSE Ok(DisabledOf(A, TRUE))
          [] OTHER -> Absent]

InitLists ==
    /\ \E U \in UserSets, mcpJson \in McpJsonChoices, L \in SUBSET ProjectPaths,
          A \in ArchivedSets, broken \in JsonPaths \cup {NoPath} :
          files = ListFiles(U, mcpJson, L, A, broken)
    /\ tmp = [p \in JsonPaths |-> Absent]
    /\ backups = <<>>
    /\ todo = <<>>
    /\ call = NoCall
    /\ prev = NoCall
    /\ now = 1
    /\ mcps = <<>>
    /\ watch = NoWatch
    /\ app = NoApp

NextLists ==
    \/ LoadMcps
    \/ \E enabled \in BOOLEAN : ToggleAllMcps(enabled)

SpecLists == InitLists /\ [][NextLists]_vars

\* The renderer: loadConfig, and toggles of the entries of its list.
NextApp ==
    \/ LoadConfig
    \/ \E i \in DOMAIN app.mcps : HandleToggleMcp(i)
    \/ \E ioFails \in BOOLEAN : ToggleMcpReturns(ioFails)

\* Stores in which the name "a" is at user level, in .mcp.json or in the archive, or
\* at several of these places.
InitApp ==
    /\ \E U \in {{}, {<<"a">>}, {<<"a">>, <<"b">>}}, mcpJson \in {"none", "other"},
          A \in {{}, {Slot("user", NoPath, <<"a">>)}, {Slot("mcp.json", NoPath, <<"a">>)}} :
          files = ListFiles(U, mcpJson, {}, A, NoPath)
    /\ tmp = [p \in JsonPaths |-> Absent]
    /\ backups = <<>>
    /\ todo = <<>>
    /\ call = NoCall
    /\ prev = NoCall
    /\ now = 1
    /\ mcps = <<>>
    /\ watch = NoWatch
    /\ app = NoApp

SpecApp == InitApp /\ [][NextApp]_vars

----------------------------------------------------------------------------
(* The file watchers, with the manager's own writes and the writes of other programs *)

\* The window is open and setupFileWatchers has run; the archive may not exist yet.
InitWatch ==
    /\ files = InitFiles({Slot("user", NoPath, <<"a">>)}, {}, FALSE)
    /\ tmp = [p \in JsonPaths |-> Absent]
    /\ backups = <<>>
    /\ todo = <<>>
    /\ call = NoCall
    /\ prev = NoCall
    /\ now = 1
    /\ mcps = <<>>
    /\ watch = setupFileWatchers(NoWatch, files)
    /\ app = NoApp

NextWatch ==
    \/ now <= MaxSelfWrites /\ DisableMcp(<<"a">>, "user", NoPath)
    \/ now <= MaxSelfWrites /\ McpWriteConfig("claude", Ok(ClaudeDefault))
    \/ Step
    \/ \E path \in {CLAUDE_JSON_PATH, MCP_DISABLED_PATH} : ExternalChange(path)
    \/ Deliver
    \/ TimerFires
    \/ Tick
    \/ CloseWindow
    \/ Activate

SpecWatch == InitWatch /\ [][NextWatch]_vars

----------------------------------------------------------------------------
(* The agent and skill handlers and the raw-content writers *)

\* The copy of an agent that an agents directory holds at the start.
InitAgent(filename, isEnabled) ==
    Ok(AgentText(isEnabled, IF isEnabled THEN "sonnet" ELSE "",
                 IF isEnabled THEN "enabled copy" ELSE "disabled copy"))
InitSkill(isEnabled) ==
    Ok(SkillFolder(IF isEnabled THEN "enabled copy" ELSE "disabled copy"))

\* Where an item is at the start: enabled, disabled, or a copy of it at both places.
Places == {"enabled", "disabled", "both"}
At(place, isEnabled) == place = "both" \/ (place = "enabled") = isEnabled

InitFilesOps ==
    /\ \E agentAt \in [AgentFiles -> Places], skillAt \in Places, emptyDest \in BOOLEAN :
        files = [p \in AllPaths |->
            IF p \in JsonPaths THEN InitFiles({Slot("user", NoPath, <<"a">>)}, {}, FALSE)[p]
            ELSE IF p \in AgentPaths
            THEN LET f == BaseName(p)
                     e == (p = AgentPath(f, TRUE))
                 IN IF At(agentAt[f], e) THEN InitAgent(f, e) ELSE Absent
            ELSE IF p \in PluginSkillPaths THEN Absent
            ELSE LET e == (p = SkillPath(BaseName(p), TRUE))
                 IN IF ~At(skillAt, e) THEN Absent
                    ELSE IF emptyDest /\ ~e THEN EmptyDir
                    ELSE InitSkill(e)]
    /\ tmp = [p \in JsonPaths |-> Absent]
    /\ backups = <<>>
    /\ todo = <<>>
    /\ call = NoCall
    /\ prev = NoCall
    /\ now = 1
    /\ mcps = <<>>
    /\ watch = NoWatch
    /\ app = NoApp

\* The texts the raw-content writers are called with.
ConfigTexts == {Ok(ClaudeOf({})), Corrupt}
EditedAgent == AgentText(TRUE, "", "edited")

NextFilesOps ==
    \/ \E f \in AgentFiles, enabled \in BOOLEAN : ToggleAgent(f, enabled)
    \/ \E n \in SkillNames, enabled \in BOOLEAN : ToggleSkill(n, enabled)
    \/ \E f \in AgentFiles, isEnabled \in BOOLEAN : UpdateAgentModel(f, "opus", isEnabled)
    \/ \E f \in AgentFiles, isEnabled \in BOOLEAN : AgentWriteContent(f, EditedAgent, isEnabled)
    \/ \E type \in {"claude", "mcp"}, content \in ConfigTexts : McpWriteConfig(type, content)
    \/ \E folderPath \in SkillPaths : WriteSkillContent(folderPath, "edited")
    \/ Step
    \/ Fail
    \/ Crash

SpecFilesOps == InitFilesOps /\ [][NextFilesOps]_vars

----------------------------------------------------------------------------
(* Deleting items of the stores, of the archive, and agents and skills *)

\* One item live in a store or none, one item archived or none, one agent at one or
\* both of its places, the skill at its place as a folder with or without a SKILL.md.
DeleteSets == {{}} \cup {{Slot(s, NoPath, <<"a">>)} : s \in {"user", "mcp.json"}}
                   \cup {{Slot("local", <<"p">>, <<"a">>)}}

InitDelete ==
    /\ \E S \in DeleteSets, A \in {{}, {Slot("user", NoPath, <<"a">>)}},
          agentAt \in Places, emptySkill \in BOOLEAN :
        files = [p \in AllPaths |->
            IF p \in JsonPaths THEN InitFiles(S, A, FALSE)[p]
            ELSE IF p \in AgentPaths
            THEN LET e == (p = AgentPath(BaseName(p), TRUE))
                 IN IF BaseName(p) = "reviewer.md" /\ At(agentAt, e)
                    THEN InitAgent(BaseName(p), e) ELSE Absent
            ELSE IF p = SkillPath("pdf", TRUE)
            THEN IF emptySkill THEN EmptyDir ELSE InitSkill(TRUE)
            ELSE Absent]
    /\ tmp = [p \in JsonPaths |-> Absent]
    /\ backups = <<>>
    /\ todo = <<>>
    /\ call = NoCall
    /\ prev = NoCall
    /\ now = 1
    /\ mcps = <<>>
    /\ watch = NoWatch
    /\ app = NoApp

NextDelete ==
    \/ \E source \in Sources, projectPath \in {NoPath, <<"p">>} :
          DeleteMcp(<<"a">>, source, projectPath, <<>>)
    \/ \E disabledKey \in {UserKey(<<"a">>), <<>>} :
          DeleteMcp(<<"a">>, "disabled", NoPath, disabledKey)
    \/ \E isEnabled \in BOOLEAN : DeleteAgent("reviewer.md", isEnabled)
    \/ \E source \in {"user", "plugin"} : DeleteSkill("pdf", source)
    \/ McpWriteConfig("claude", Ok(ClaudeDefault))
    \/ Step
    \/ Fail
    \/ Crash

SpecDelete == InitDelete /\ [][NextDelete]_vars

----------------------------------------------------------------------------
(* Skills: writeSkillContent and deleteSkill with whatever a caller can pass *)

\* The folder paths a caller passes to writeSkillContent: the folder of a user skill,
\* of a disabled skill, of a plugin skill, and a path that starts in the user skills
\* directory and leaves it.
CallerFolderPaths ==
    SkillPaths \cup PluginSkillPaths
        \cup {SKILLS_DIR \o <<"..", "plugins", "cache", n>> : n \in SkillNames}

\* A user skill (absent, empty, or with its SKILL.md) and a plugin skill.
InitSkills ==
    /\ \E user \in {Absent, EmptyDir, InitSkill(TRUE)} :
        files = [p \in AllPaths |->
            IF p \in JsonPaths THEN InitFiles({}, {}, FALSE)[p]
            ELSE IF p = SkillPath("pdf", TRUE) THEN user
            ELSE IF p \in PluginSkillPaths THEN Ok(SkillFolder("plugin copy"))
            ELSE Absent]
    /\ tmp = [p \in JsonPaths |-> Absent]
    /\ backups = <<>>
    /\ todo = <<>>
    /\ call = NoCall
    /\ prev = NoCall
    /\ now = 1
    /\ mcps = <<>>
    /\ watch = NoWatch
    /\ app = NoApp

NextSkills ==
    \/ \E folderPath \in CallerFolderPaths : WriteSkillContent(folderPath, "edited")
    \/ \E name \in {"pdf", UpToPlugin("pdf")}, source \in {"user", "plugin"} :
          DeleteSkill(name, source)
    \/ Step
    \/ Fail
    \/ Crash

SpecSkills == InitSkills /\ [][NextSkills]_vars

----------------------------------------------------------------------------
(* Backups and restores *)

\* The backups directory after n snapshots of ~/.claude.json, taken while the file
\* changed between two contents.
SnapshotsOf(n) ==
    [k \in 1..n |->
        Backup(BaseName(CLAUDE_JSON_PATH), "snapshot", k - n,
               Ok(ClaudeOf(IF k % 2 = 1 THEN {} ELSE {Slot("user", NoPath, <<"a">>)})),
               CLAUDE_JSON_PATH, TRUE)]

InitBackups ==
    /\ \E n \in {0, 1, MAX_BACKUPS - 1, MAX_BACKUPS}, withMcp \in BOOLEAN :
        /\ backups = SnapshotsOf(n)
        /\ files = [InitFiles({Slot("user", NoPath, <<"a">>)}, {}, FALSE)
                        EXCEPT ![MCP_JSON_PATH] = IF withMcp THEN @ ELSE Absent]
    /\ tmp = [p \in JsonPaths |-> Absent]
    /\ todo = <<>>
    /\ call = NoCall
    /\ prev = NoCall
    /\ now = 1
    /\ mcps = <<>>
    /\ watch = NoWatch
    /\ app = NoApp

NextBackups ==
    \/ CreateManualBackup
    \/ \E i \in 0..Len(backups) : RestoreBackup(i)
    \/ \E type \in {"claude", "mcp"}, content \in ConfigTexts : McpWriteConfig(type, content)
    \/ Step
    \/ Fail
    \/ Crash

SpecBackups == InitBackups /\ [][NextBackups]_vars

----------------------------------------------------------------------------
(* Retention: createBackup called again and again on ~/.claude.json *)

\* One createBackup call whose sidecar write does not fail. The clock has millisecond
\* resolution: the call reads the millisecond of the newest backup again, or a later one.
CreateBackupCall(sameMs) ==
    LET filePath == CLAUDE_JSON_PATH
        c == FileCall("createBackup", filePath, NoPath, FALSE)
        timestamp == IF sameMs /\ backups # <<>> THEN backups[Len(backups)].ts ELSE now
    IN
    /\ todo = <<>>
    /\ now <= MaxSnapshots
    /\ UNCHANGED <<files, tmp>>
    /\ \E outcome \in BackupOutcomes(files[filePath]) \ {"metaFails"} :
        /\ backups' = createBackup(backups, filePath, files[filePath], timestamp, outcome)
        /\ IF outcome = "copyFails"
           THEN Reject([c EXCEPT !.result = Threw])
           ELSE Return([c EXCEPT !.result = Success])

InitRetention ==
    /\ \E S \in {{}, {Slot("user", NoPath, <<"a">>)}} :
        files = InitFiles(S, {}, FALSE)
    /\ tmp = [p \in JsonPaths |-> Absent]
    /\ backups = <<>>
    /\ todo = <<>>
    /\ call = NoCall
    /\ prev = NoCall
    /\ now = 1
    /\ mcps = <<>>
    /\ watch = NoWatch
    /\ app = NoApp

NextRetention == \E sameMs \in BOOLEAN : CreateBackupCall(sameMs)

SpecRetention == InitRetention /\ [][NextRetention]_vars

----------------------------------------------------------------------------
(* What the files hold *)

ParsedStore(f, source) == readJsonFile(f[StorePath(source)], StoreDefault(source))
Archive(f) == readJsonFile(f[MCP_DISABLED_PATH], DisabledDefault).disabled
LiveServers(f, s) == Servers(ParsedStore(f, s.source), s.source, s.projectPath)

\* The item of slot s is live in the files f, with config c.
Live(f, s, c) == s.name \in DOMAIN LiveServers(f, s) /\ LiveServers(f, s)[s.name] = c

\* The item of slot s is in the archive of the files f under key k, with config c.
ArchivedAt(f, k, s, c) ==
    /\ k \in DOMAIN Archive(f)
    /\ Archive(f)[k].config = c
    /\ Archive(f)[k].source = s.source
    /\ Archive(f)[k].projectPath = s.projectPath

Present(f, s, c) == Live(f, s, c) \/ ArchivedAt(f, ArchiveKey(s.source, s.projectPath, s.name), s, c)

McpToggleOps == {"disableMcp", "enableMcp"}
Stopped == {Failure("io"), Crashed}

----------------------------------------------------------------------------
(* C1 *)

\* C1: during and after a disableMcp or enableMcp call, whatever write fails and
\* wherever the process stops, every item that was live or archived at the call is
\* still live in its origin's store or in the archive, with the config it had.
C1_NoDataLoss ==
    call.op \in McpToggleOps =>
        /\ \A s \in Slots :
              s.name \in DOMAIN LiveServers(call.pre, s)
                 => Present(files, s, LiveServers(call.pre, s)[s.name])
        /\ \A k \in DOMAIN Archive(call.pre), s \in Slots :
              ArchivedAt(call.pre, k, s, Archive(call.pre)[k].config)
                 /\ ArchiveKey(s.source, s.projectPath, s.name) = k
                 => Present(files, s, Archive(call.pre)[k].config)

----------------------------------------------------------------------------
(* C2 *)

\* The disableMcp call found its item and went on to its writes.
DisableFound ==
    /\ call.op = "disableMcp"
    /\ ~(call.source = "local" /\ call.projectPath = NoPath)
    /\ call.name \in DOMAIN LiveServers(call.pre, call)

DisabledConfig == LiveServers(call.pre, call)[call.name]

\* C2: in disableMcp the archive write that adds the entry completes before the
\* write of the active store that removes the item: once the store has changed the
\* entry is in the archive, the item is never in neither, and when the call stops or
\* fails after the archive write the item is in both.
C2_ArchiveFirst ==
    DisableFound =>
        /\ files[StorePath(call.source)] # call.pre[StorePath(call.source)]
              => ArchivedAt(files, call.key, call, DisabledConfig)
        /\ Live(files, call, DisabledConfig) \/ ArchivedAt(files, call.key, call, DisabledConfig)
        /\ call.result \in Stopped /\ files[MCP_DISABLED_PATH] # call.pre[MCP_DISABLED_PATH]
              => /\ Live(files, call, DisabledConfig)
                 /\ ArchivedAt(files, call.key, call, DisabledConfig)

\* A disableMcp that stopped between its two writes: the item is in both places.
C2_Witness ==
    /\ DisableFound
    /\ call.result \in Stopped
    /\ files[MCP_DISABLED_PATH] # call.pre[MCP_DISABLED_PATH]
    /\ Live(files, call, DisabledConfig)
    /\ ArchivedAt(files, call.key, call, DisabledConfig)

----------------------------------------------------------------------------
(* C3 *)

\* The enableMcp call found its entry, found no conflict and went on to its writes.
EnableFound ==
    /\ call.op = "enableMcp"
    /\ call.key \in DOMAIN Archive(call.pre)
    /\ ~(call.source = "local" /\ call.projectPath = NoPath)
    /\ call.name \notin DOMAIN LiveServers(call.pre, call)

EnabledEntry == Archive(call.pre)[call.key]

\* C3: in enableMcp the write of the destination store that adds the item completes
\* before the archive write that removes the entry: once the entry is gone the item
\* is live in the destination, and when the call stops or fails after the store
\* write the item is in both.
C3_ActiveFirst ==
    EnableFound =>
        /\ call.key \notin DOMAIN Archive(files)
              => Live(files, call, EnabledEntry.config)
        /\ files[MCP_DISABLED_PATH] # call.pre[MCP_DISABLED_PATH]
              => files[StorePath(call.source)] # call.pre[StorePath(call.source)]
        /\ call.result \in Stopped
               /\ files[StorePath(call.source)] # call.pre[StorePath(call.source)]
              => /\ Live(files, call, EnabledEntry.config)
                 /\ ArchivedAt(files, call.key, call, EnabledEntry.config)

\* An enableMcp that stopped between its two writes: the item is in both places.
C3_Witness ==
    /\ EnableFound
    /\ call.result \in Stopped
    /\ files[StorePath(call.source)] # call.pre[StorePath(call.source)]
    /\ Live(files, call, EnabledEntry.config)
    /\ ArchivedAt(files, call.key, call, EnabledEntry.config)

----------------------------------------------------------------------------
(* C4 *)

\* An item is live in the store and scope of the entry of key k under the name that
\* the entry was archived from: the name n whose archive key, in that scope, is k.
EnableConflict(f, k) ==
    /\ k \in DOMAIN Archive(f)
    /\ \E n \in DOMAIN LiveServers(f, Archive(f)[k]) :
          ArchiveKey(Archive(f)[k].source, Archive(f)[k].projectPath, n) = k

\* C4: an enableMcp(disabledKey) called while an item with the name of the archived
\* entry is live in the destination store (same origin, same project scope) returns a
\* failure and changes no file: stores, archive, temporary files and backups are as
\* before the call.
C4_ConflictPrevention ==
    (call.op = "enableMcp" /\ EnableConflict(call.pre, call.key))
        => /\ call.result \notin {Success, Running}
           /\ files = call.pre
           /\ backups = call.preBackups

----------------------------------------------------------------------------
(* C6 *)

\* C6: a successful disableMcp(X) followed by a successful enableMcp of X's archive
\* key leaves the active store as it was before the disable (same name, scope and
\* config) and the archive with the entries it had before the disable.
C6_RoundTrip ==
    /\ call.op = "enableMcp" /\ call.result = Success
    /\ prev.op = "disableMcp" /\ prev.result = Success
    /\ call.key = prev.key
    => /\ files[StorePath(prev.source)] = prev.pre[StorePath(prev.source)]
       /\ Archive(files) = Archive(prev.pre)

----------------------------------------------------------------------------
(* C7 *)

\* C7: a target of writeJsonFileAtomic changes only in the rename step, and then to
\* the complete new content; every other step, and every failure or stop of a step,
\* leaves the target as it was.
C7_AtomicReplace ==
    [][\A p \in JsonPaths :
          files'[p] # files[p]
             => /\ todo # <<>>
                /\ Head(todo).op = "rename"
                /\ Head(todo).path = p
                /\ todo' = Tail(todo)
                /\ files'[p] = Head(todo).data
                /\ files'[p].st = "ok"]_vars

\* A write of the temporary file failed halfway: the target still has its old content.
C7_Witness ==
    /\ call.op \in McpToggleOps
    /\ call.result \in Stopped
    /\ \E p \in JsonPaths : tmp[p] = Partial /\ files[p] = call.pre[p] /\ files[p].st = "ok"

----------------------------------------------------------------------------
(* C5, C8, C9, C10 *)

\* C5: toggleAgent and toggleSkill called while a file or folder of the same name is
\* at the destination return a failure, and no file and no backup changes.
C5_ToggleConflictPrevention ==
    (call.op \in {"toggleAgent", "toggleSkill"} /\ call.pre[call.dest].st # "absent")
        => /\ ~call.result.success
           /\ files = call.pre
           /\ backups = call.preBackups

\* C8: whatever handler writes it and wherever the handler fails or the process stops,
\* no managed file is ever left partially written.
C8_AtomicEverywhere == \A p \in AllPaths : files[p].st # "partial"

\* C9: a file that existed when a handler was called and that the handler has changed
\* has a copy of what it held in the backups directory, made by that call.
C9_SnapshotBeforeModify ==
    \A p \in AllPaths :
        (call.op # "none" /\ call.pre[p].st # "absent" /\ files[p] # call.pre[p])
            => \E i \in DOMAIN backups :
                /\ backups[i].base = BaseName(p)
                /\ backups[i].content = call.pre[p]
                /\ backups[i].ts = now - 1

\* C10: restoreBackup changes nothing unless the backup file and its sidecar exist and
\* the backup is valid JSON; otherwise it changes no file but the one the sidecar names,
\* once it has touched that file a snapshot of what the file held at the call, with its
\* sidecar, is in the backups directory, and, unless a file-system call fails or the
\* process stops, it succeeds and the file holds the content of the backup.
C10_RestoreValidatedUndoable ==
    call.op = "restoreBackup" =>
        IF call.backup = NoBackup \/ ~call.backup.hasMeta \/ call.backup.content.st # "ok"
        THEN ~call.result.success /\ files = call.pre /\ backups = call.preBackups
        ELSE /\ \A p \in AllPaths \ {call.path} : files[p] = call.pre[p]
             /\ (files[call.path] # call.pre[call.path] /\ call.pre[call.path].st # "absent")
                    => \E i \in DOMAIN backups :
                         backups[i] = Backup(BaseName(call.path), "snapshot", now - 1,
                                             call.pre[call.path], call.path, TRUE)
             /\ call.result \notin {Running, Failure("io"), Crashed}
                    => call.result.success /\ files[call.path] = call.backup.content

----------------------------------------------------------------------------
(* C11 *)

\* The backups of the file `path' that createBackup made.
SnapshotsOfPath(path) ==
    {i \in DOMAIN backups : backups[i].kind = "snapshot" /\ backups[i].originalPath = path}

Min(a, b) == IF a <= b THEN a ELSE b

\* C11: after k createBackup calls against ~/.claude.json, none of which has failed to
\* write its sidecar, exactly min(k, MAX_BACKUPS) backups of the file are in the
\* backups directory, each with its sidecar, and they are those of the last calls.
C11_BackupRetention ==
    (call.op = "createBackup" /\ \A i \in DOMAIN backups : backups[i].hasMeta)
        => /\ Cardinality(SnapshotsOfPath(CLAUDE_JSON_PATH)) = Min(now - 1, MAX_BACKUPS)
           /\ \A i \in SnapshotsOfPath(CLAUDE_JSON_PATH) : backups[i].ts > now - 1 - MAX_BACKUPS

----------------------------------------------------------------------------
(* Claims on the list that loadMCPs returns *)

UserServers(f) == readJsonFile(f[CLAUDE_JSON_PATH], ClaudeDefault).mcpServers
ProjectServers(f) == readJsonFile(f[CLAUDE_JSON_PATH], ClaudeDefault).projects
McpJsonServers(f) == readJsonFile(f[MCP_JSON_PATH], McpDefault).mcpServers

\* The positions of the list that hold an item called name that is live at source.
Listed(name, source) ==
    {i \in DOMAIN mcps : mcps[i].name = name /\ mcps[i].source = source}

Loaded == call.op = "loadMCPs"

\* C12: in the list loadMCPs returns, a name that is in ~/.claude.json at user level and
\* in .mcp.json is one entry, the user-level one, when the two configs are identical, and
\* two entries, one of each source, when they differ; a name at user level and in a
\* project scope is always listed at both.
C12_Dedup ==
    Loaded =>
        /\ \A n \in DOMAIN UserServers(files) \cap DOMAIN McpJsonServers(files) :
              /\ Cardinality(Listed(n, "user")) = 1
              /\ Cardinality(Listed(n, "mcp.json")) =
                    IF UserServers(files)[n] = McpJsonServers(files)[n] THEN 0 ELSE 1
        /\ \A n \in DOMAIN UserServers(files), p \in DOMAIN ProjectServers(files) :
              n \in DOMAIN ProjectServers(files)[p] =>
                  /\ Listed(n, "user") # {}
                  /\ \E i \in Listed(n, "local") : mcps[i].projectPath = p

\* C13: the list loadMCPs returns is sorted by name ascending and, within a name, in the
\* order user, local, mcp.json, disabled; and it is the same list for every order of the
\* keys in the files.
C13_DeterministicOrder ==
    Loaded =>
        /\ \A i, j \in DOMAIN mcps :
              i < j => IF mcps[i].name # mcps[j].name
                       THEN NameBefore(mcps[i].name, mcps[j].name)
                       ELSE sourcePriority(mcps[i].source) <= sourcePriority(mcps[j].source)
        /\ loadMCPs(files) = {mcps}

\* The name under which disableMcp archived the entry of key k: k without the prefix
\* that disableMcp put before the name.
DisabledAs(k, entry) ==
    SubSeq(k, Len(ArchiveKey(entry.source, entry.projectPath, <<>>)) + 1, Len(k))

\* C14: for every key k of the archive the list loadMCPs returns has exactly one item
\* with disabledKey k; its source is 'disabled', it is not enabled, it has the config
\* and the metadata of the entry, and its name is the name under which the item was
\* disabled.
C14_DisabledListed ==
    Loaded =>
        \A k \in DOMAIN Archive(files) :
            /\ Cardinality({i \in DOMAIN mcps : mcps[i].disabledKey = k}) = 1
            /\ \A i \in DOMAIN mcps :
                  mcps[i].disabledKey = k =>
                      /\ mcps[i].source = "disabled"
                      /\ ~mcps[i].enabled
                      /\ mcps[i].config = Archive(files)[k].config
                      /\ mcps[i].metadata = Archive(files)[k].metadata
                      /\ mcps[i].name = DisabledAs(k, Archive(files)[k])

Unparseable(f) == {p \in JsonPaths : f[p].st = "corrupt"}

C16_ParseErrorDistinct ==
    Loaded =>
        \A p \in Unparseable(files) :
            readJsonFile(files[p], DefaultOf(p)) # readJsonFile(Absent, DefaultOf(p))

----------------------------------------------------------------------------
(* Files that do not parse *)

\* C17: when the active store a call of disableMcp or enableMcp works on, or the
\* archive, is present and does not parse at the call, the call returns an error, and
\* no file that did not parse at the call is written: it keeps its content.
C17_CorruptBlocks ==
    call.op \in McpToggleOps =>
        \A p \in Unparseable(call.pre) :
            /\ files[p] = call.pre[p]
            /\ (p \in {StorePath(call.source), MCP_DISABLED_PATH} /\ todo = <<>>)
                  => ~call.result.success

----------------------------------------------------------------------------
(* Claims on toggleAllMcps *)

\* The last call was toggleAllMcps(true), which moves items to ~/.claude.json, or
\* toggleAllMcps(false), which moves items to the archive.
EnabledAll == call.op = "toggleAllMcps" /\ call.dest = CLAUDE_JSON_PATH
DisabledAll == call.op = "toggleAllMcps" /\ call.dest = MCP_DISABLED_PATH

\* The keys of the archive of f whose entries came from user level.
UserKeys(f) == {k \in DOMAIN Archive(f) : Archive(f)[k].source = "user"}

\* C18: toggleAllMcps makes the transition of every eligible item, also of those that
\* come after an item whose transition failed: after toggleAllMcps(false) no server that
\* was at user level is still there, and after toggleAllMcps(true) every entry of the
\* archive that came from user level has left the archive, unless a server of its name
\* was live at user level at the call, so that its own transition had to fail.
C18_BulkCoversAll ==
    /\ DisabledAll => \A n \in DOMAIN UserServers(call.pre) : n \notin DOMAIN UserServers(files)
    /\ EnabledAll =>
          \A k \in UserKeys(call.pre) :
              \/ k \notin DOMAIN Archive(files)
              \/ EnableName("user", k) \in DOMAIN UserServers(call.pre)

\* The names of the items the last toggleAllMcps has moved, and the names that its
\* result carries (the item of the error message, when it failed).
Toggled ==
    IF EnabledAll
    THEN {EnableName("user", k) : k \in UserKeys(call.pre) \ DOMAIN Archive(files)}
    ELSE DOMAIN UserServers(call.pre) \ DOMAIN UserServers(files)
NamedInResult == IF call.result.success THEN {} ELSE {call.name}

\* C19: when toggleAllMcps returns a failure, its result names the item that failed,
\* which is still where it was, and names every item that the call has moved.
C19_FailuresAttributable ==
    (call.op = "toggleAllMcps" /\ ~call.result.success) =>
        /\ call.name \notin Toggled
        /\ Toggled \subseteq NamedInResult

\* C20: toggleAllMcps, for either value of enabled, leaves every project scope of
\* ~/.claude.json with the servers it had, does not write .mcp.json, and leaves in the
\* archive every entry that came from a project scope or from .mcp.json.
C20_BulkScope ==
    call.op = "toggleAllMcps" =>
        /\ ProjectServers(files) = ProjectServers(call.pre)
        /\ files[MCP_JSON_PATH] = call.pre[MCP_JSON_PATH]
        /\ \A k \in DOMAIN Archive(call.pre) \ UserKeys(call.pre) :
              /\ k \in DOMAIN Archive(files)
              /\ Archive(files)[k] = Archive(call.pre)[k]

\* toggleAllMcps has moved an item while the archive held an entry of another origin
\* under the same name.
C20_Witness ==
    /\ call.op = "toggleAllMcps"
    /\ \E n \in Toggled :
          \E k \in DOMAIN Archive(call.pre) \ UserKeys(call.pre) : LastPart(k) = n

----------------------------------------------------------------------------
(* Claims on the file watchers *)

\* The event e came from a write of the manager and reached the callback within the
\* grace window after that write (events are delivered before the clock moves on).
OwnWrite(e) == e.self

\* C21: no file:external-change signal is sent for change events that all came from
\* the manager's own writes and arrived within the grace window after them.
C21_SelfWriteSuppressed ==
    \A i \in DOMAIN watch.sent : \E e \in watch.sent[i].armedBy : ~OwnWrite(e)

\* The positions of the change events after which no other change event came within
\* the debounce window: the ends of the bursts.
BurstEnds ==
    {i \in DOMAIN watch.delivered :
        \/ i = Len(watch.delivered)
        \/ watch.delivered[i + 1].at - watch.delivered[i].at >= DEBOUNCE}

\* The events of the burst that ends at position i.
Burst(i) == {k \in 1..i : \A j \in k..(i - 1) : j \notin BurstEnds}

\* C22: at most one debounce timer is pending; and, with the window open from the
\* start, every burst of change events that is over has produced exactly one
\* file:external-change signal, which names a file of the burst.
C22_Coalescing ==
    /\ Cardinality(watch.timers) <= 1
    /\ (watch.window # 0 /\ watch.windows = 1) =>
          \A i \in BurstEnds :
              watch.delivered[i].at + DEBOUNCE < watch.time =>
                  LET signals == {j \in DOMAIN watch.sent :
                                    watch.sent[j].at = watch.delivered[i].at + DEBOUNCE}
                  IN /\ Cardinality(signals) = 1
                     /\ \A j \in signals :
                           \E k \in Burst(i) :
                               watch.sent[j].fileName = BaseName(watch.delivered[k].path)

\* Nothing is pending: no handler runs, no event waits, no timer is set.  From here no
\* signal is sent unless a file changes again.
Quiet == todo = <<>> /\ watch.queue = <<>> /\ watch.timers = {}

\* C23: every change that another program made to one of the three files while the
\* window that is open now was open is followed by a file:external-change signal at or
\* after it: none is still without a signal when nothing is pending any more.
C23_WatcherLiveness ==
    (Quiet /\ watch.window # 0) =>
        \A i \in DOMAIN watch.changes :
            watch.changes[i].window = watch.window =>
                \E j \in DOMAIN watch.sent : watch.sent[j].at >= watch.changes[i].at

----------------------------------------------------------------------------
(* Errors *)

\* The operations of the model that are exposed over IPC as they are.
IpcOperations ==
    {"disableMcp", "enableMcp", "toggleAllMcps", "toggleAgent", "updateAgentModel",
     "toggleSkill", "restoreBackup"}

\* C24: no operation exposed over IPC lets what a file-system call throws reach its
\* caller: its result is always a record with a success flag that the handler made.
C24_NoRawException ==
    call.op \in IpcOperations => call.result # Threw

\* The last call was disableMcp for an item that was not in the store of the source it
\* named, or for the source 'local' with no project path.
DisableOfAbsent ==
    /\ call.op = "disableMcp"
    /\ \/ call.source = "local" /\ call.projectPath = NoPath
       \/ call.name \notin DOMAIN Servers(ParsedStore(call.pre, call.source),
                                           call.source, call.projectPath)

\* C25: a disableMcp for an item that is not in the store it names, or for 'local'
\* without a project path, returns a failure, and the files (active stores, archive)
\* and the backups directory are as they were at the call.
C25_DisableAbsentNoEffect ==
    DisableOfAbsent =>
        /\ ~call.result.success
        /\ files = call.pre
        /\ backups = call.preBackups
        /\ todo = <<>>

\* disableMcp was called for an item that the call before had just disabled: it is
\* not in its store any more, and a backup and an archive entry exist.
C25_Witness ==
    /\ DisableOfAbsent
    /\ prev.op = "disableMcp"
    /\ prev.name = call.name /\ prev.source = call.source
    /\ prev.projectPath = call.projectPath
    /\ backups # <<>>

----------------------------------------------------------------------------
(* Claims on the arguments of mcp:toggle and on the keys of the archive *)

\* C26: two calls toggleMcp(name, true, source, projectPath, disabledKey) from the same
\* files with the same disabledKey end with the same files, backups and result,
\* whatever name, source and projectPath they pass (each ends as the call that passes
\* none of the three does); and an enable that succeeds has put the item into the
\* store and scope that the archive entry names.
C26_ArchiveAuthoritative ==
    /\ Idle =>
          \A disabledKey \in AllKeys :
              \A name \in Names, source \in CallerSources, projectPath \in CallerPaths :
                  toggleMcp(Here, name, TRUE, source, projectPath, disabledKey)
                      = toggleMcp(Here, <<>>, TRUE, "", NoPath, disabledKey)
    /\ (call.op = "toggleMcp" /\ call.dest = NoPath /\ call.result.success) =>
          LET entry == Archive(call.pre)[call.key]
          IN EnableName(entry.source, call.key)
                \in DOMAIN LiveServers(files, Slot(entry.source, entry.projectPath, <<>>))

\* An enable has succeeded for a caller that named another source than the archive
\* entry has.
C26_Witness ==
    /\ call.op = "toggleMcp" /\ call.dest = NoPath /\ call.result.success
    /\ call.source \in Sources
    /\ call.source # Archive(call.pre)[call.key].source

\* The slot that the archive entry of key k was disabled from.
SlotOf(k, entry) == Slot(entry.source, entry.projectPath, DisabledAs(k, entry))

\* C27: two items that differ in origin, project scope or name have different archive
\* keys: a disableMcp that succeeds leaves every archive entry that was disabled from
\* another slot than the one it disables as it was.
C27_UniqueKeys ==
    (call.op = "disableMcp" /\ call.result.success) =>
        \A k \in DOMAIN Archive(call.pre) :
            SlotOf(k, Archive(call.pre)[k]) # Slot(call.source, call.projectPath, call.name)
                => /\ k \in DOMAIN Archive(files)
                   /\ Archive(files)[k] = Archive(call.pre)[k]

\* The last call was a disableMcp that has returned after it wrote the archive and
\* before it replaced the active store.
PartialDisable ==
    /\ call.op = "disableMcp"
    /\ todo = <<>>
    /\ call.result # Crashed
    /\ Archive(files) # Archive(call.pre)
    /\ files[StorePath(call.source)] = call.pre[StorePath(call.source)]

\* C28: a disableMcp whose archive write succeeded and whose write of the active store
\* failed returns a success (with a warning), which is not the result of a disableMcp
\* that failed and changed nothing.
C28_PartialDisableReported ==
    PartialDisable => (call.result.success /\ call.result # Failure("io"))

----------------------------------------------------------------------------
(* Claims on deleting *)

DeleteOps == {"deleteMcp", "deleteAgent", "deleteSkill"}

\* The item the running or last delete call names is not in the store it names.
Gone ==
    IF call.op = "deleteMcp"
    THEN ~deleteFinds(readJsonFile(files[call.path],
                                   IF call.path = MCP_DISABLED_PATH THEN DisabledDefault
                                   ELSE StoreDefault(call.source)),
                      call.name, call.source, call.projectPath, call.key)
    ELSE files[call.path].st = "absent"

\* The backups directory holds a copy, made by this call, of what the call found at
\* its path: the store file for deleteMcp, the file or the folder for the other two.
CopyOfBefore ==
    \E i \in DOMAIN backups :
        /\ backups[i].content = call.pre[call.path]
        /\ backups[i].ts = now - 1
        /\ IF call.op = "deleteMcp"
           THEN backups[i].base = BaseName(call.path) /\ backups[i].kind = "snapshot"
           ELSE backups[i].base = call.name[1]
                /\ backups[i].kind = IF call.op = "deleteAgent" THEN "deleted"
                                     ELSE "skill-deleted"

\* C29: when deleteMcp, deleteAgent or deleteSkill returns success the item is gone
\* from its store, and from the first moment the store differs from what the call
\* found, the backups directory holds a copy of the store file (deleteMcp) or of the
\* file or folder (deleteAgent, deleteSkill) as it was before the deletion.
C29_DeleteAfterBackup ==
    call.op \in DeleteOps =>
        /\ (todo = <<>> /\ call.result.success) => (Gone /\ CopyOfBefore)
        /\ files[call.path] # call.pre[call.path] => CopyOfBefore

\* A delete of each kind has returned success.
C29_Witness ==
    /\ call.op = "deleteSkill" /\ call.result.success /\ todo = <<>>
    /\ prev.op = "deleteMcp" /\ prev.result.success
    /\ files[prev.path] # prev.pre[prev.path]

----------------------------------------------------------------------------
(* Claims on the backups directory *)

\* A copy that its operation wrote in full: not a snapshot whose createBackup call
\* threw before its sidecar was written, not a folder whose copy was cut short.
WrittenInFull(b) ==
    /\ b.content.st # "partial"
    /\ b.kind = "snapshot" => b.hasMeta

\* C30: every copy that an operation wrote into the backups directory, and that
\* retention has not pruned, has a sidecar with its original path and is in the
\* list that listBackups returns, so that restoreBackup finds its metadata.
C30_EveryBackupListed ==
    \A i \in DOMAIN backups :
        WrittenInFull(backups[i]) =>
            /\ backups[i].hasMeta
            /\ backups[i].originalPath # NoPath
            /\ \E j \in DOMAIN listBackups(backups) : listBackups(backups)[j] = backups[i]

----------------------------------------------------------------------------
(* Claims on what a toggle leaves alone *)

\* C31: an entry of the archive keeps its config, its origin and its metadata for as
\* long as it is in the archive: whatever handler runs, an entry that was in the
\* archive at the call and is still there is the entry that was there; a disableMcp
\* whose archive key is taken does not replace the entry.
C31_ArchiveEntriesImmutable ==
    call.op # "none" =>
        \A k \in DOMAIN Archive(call.pre) \cap DOMAIN Archive(files) :
            Archive(files)[k] = Archive(call.pre)[k]

\* The files other than the store and the archive a toggle works on are as at the call.
OthersUntouched ==
    \A p \in AllPaths \ {StorePath(call.source), MCP_DISABLED_PATH} : files[p] = call.pre[p]

\* The store json of the call's origin, at the call.
StoreAtCall == ParsedStore(call.pre, call.source)

\* C32: a disableMcp(X) or enableMcp(X) that returns success changes only X.  After the
\* disable the store is the store of the call without X, every other file but the
\* archive is untouched, and the archive is the archive of the call with X's config
\* under X's key.  After the enable the store is the store of the call with the
\* archived config under the name X was archived from (the name that gives X's key),
\* and the archive is the archive of the call without X's key.
C32_ToggleFrame ==
    (call.op \in {"disableMcp", "enableMcp"} /\ call.result = Success) =>
        LET servers == Servers(StoreAtCall, call.source, call.projectPath)
        IN
        /\ OthersUntouched
        /\ IF call.op = "disableMcp"
           THEN /\ files[StorePath(call.source)] =
                      Ok(WithServers(StoreAtCall, call.source, call.projectPath,
                                     Del(servers, call.name)))
                /\ DOMAIN Archive(files) = DOMAIN Archive(call.pre) \cup {call.key}
                /\ \A k \in DOMAIN Archive(call.pre) \ {call.key} :
                      Archive(files)[k] = Archive(call.pre)[k]
                /\ Archive(files)[call.key].config = servers[call.name]
           ELSE /\ \E n \in Names :
                      /\ ArchiveKey(call.source, call.projectPath, n) = call.key
                      /\ files[StorePath(call.source)] =
                            Ok(WithServers(StoreAtCall, call.source, call.projectPath,
                                           Put(servers, n,
                                               Archive(call.pre)[call.key].config)))
                /\ Archive(files) = Del(Archive(call.pre), call.key)

----------------------------------------------------------------------------
(* Claims on the backups directory over several calls *)

\* C33: a backup that was in the backups directory when a handler was called is either
\* there after the call as it was, content and sidecar, or gone as a whole: no file of
\* its name is left.
C33_BackupsImmutable ==
    call.op # "none" =>
        \A i \in DOMAIN call.preBackups :
            \/ \E j \in DOMAIN backups : backups[j] = call.preBackups[i]
            \/ \A j \in DOMAIN backups : ~SameName(backups[j], call.preBackups[i])

----------------------------------------------------------------------------
(* Claims on the duplicated state *)

\* In the files f the item (source, projectPath, name) is live in its store and its
\* archive key holds an entry of that origin.
Duplicated(f, source, projectPath, name) ==
    LET k == ArchiveKey(source, projectPath, name)
    IN /\ name \in DOMAIN Servers(ParsedStore(f, source), source, projectPath)
       /\ k \in DOMAIN Archive(f)
       /\ Archive(f)[k].source = source
       /\ Archive(f)[k].projectPath = (IF source = "local" THEN projectPath ELSE NoPath)

\* The call has come to its end with no file-system call failing and no process stop.
Undisturbed == call.result \notin {Running, Failure("io"), Crashed, Threw}

\* C34: from a state in which an item X is live in its store and archived under its
\* key, enableMcp of X's key returns a failure and changes no file; disableMcp(X)
\* succeeds and leaves X in the archive only; and the enableMcp of X's key that follows
\* that disable succeeds.
C34_DuplicateRecovery ==
    /\ (/\ call.op = "enableMcp"
        /\ \E n \in Names : \E s \in Sources : \E p \in ProjectPaths \cup {NoPath} :
              /\ ArchiveKey(s, p, n) = call.key
              /\ Duplicated(call.pre, s, p, n))
          => /\ ~call.result.success /\ call.result # Running
             /\ files = call.pre
             /\ backups = call.preBackups
    /\ (/\ call.op = "disableMcp"
        /\ Duplicated(call.pre, call.source, call.projectPath, call.name)
        /\ Undisturbed)
          => /\ call.result = Success
             /\ call.name \notin DOMAIN Servers(ParsedStore(files, call.source),
                                                call.source, call.projectPath)
             /\ call.key \in DOMAIN Archive(files)
    /\ (/\ call.op = "enableMcp"
        /\ prev.op = "disableMcp"
        /\ Duplicated(prev.pre, prev.source, prev.projectPath, prev.name)
        /\ call.key = prev.key
        /\ Undisturbed)
          => call.result = Success

----------------------------------------------------------------------------
(* Claims on restoring and pruning *)

\* The backup the restoreBackup call names was in the list of listBackups at the call.
RestoresListed ==
    /\ call.op = "restoreBackup"
    /\ \E j \in DOMAIN listBackups(call.preBackups) :
          listBackups(call.preBackups)[j] = call.backup

\* C35: a restoreBackup of a backup that listBackups returns and that is valid JSON,
\* the oldest of MAX_BACKUPS backups of the file included, succeeds unless a
\* file-system call fails or the process stops: the snapshot it takes does not prune
\* the backup it restores, and at its end the live file holds the backup's content.
C35_RestoreSurvivesRetention ==
    (RestoresListed /\ call.backup.content.st = "ok") =>
        /\ \E j \in DOMAIN backups : backups[j] = call.backup
        /\ Undisturbed => (call.result = Success /\ files[call.path] = call.backup.content)

\* The files of the backups directory at the call of which no file of that name is left.
Pruned ==
    {i \in DOMAIN call.preBackups :
        \A j \in DOMAIN backups : ~SameName(backups[j], call.preBackups[i])}

\* C36: the pruning that a createBackup of a file triggers deletes only snapshots that
\* createBackup made, never a copy of the raw-edit handlers or of deleteAgent, and it
\* counts only the snapshots of that file: a snapshot is pruned only when MAX_BACKUPS
\* snapshots of its file stay.
C36_PruningConfined ==
    call.op # "none" =>
        \A i \in Pruned :
            /\ call.preBackups[i].kind = "snapshot"
            /\ Cardinality(SnapshotsOfPath(call.preBackups[i].originalPath)) = MAX_BACKUPS

----------------------------------------------------------------------------
(* Claims on what a bulk toggle has done when it returns success *)

\* C37: after a toggleAllMcps(false) that returns success the user-level mcpServers of
\* ~/.claude.json is empty and every server that was in it is in the archive under
\* 'user:<name>' with its config; after a toggleAllMcps(true) that returns success no
\* entry that came from user level is left in the archive and every such entry is in
\* the user-level mcpServers, under the name of its key, with its config.
C37_BulkPostcondition ==
    /\ (DisabledAll /\ call.result.success) =>
          /\ DOMAIN UserServers(files) = {}
          /\ \A n \in DOMAIN UserServers(call.pre) :
                /\ UserKey(n) \in DOMAIN Archive(files)
                /\ Archive(files)[UserKey(n)].config = UserServers(call.pre)[n]
    /\ (EnabledAll /\ call.result.success) =>
          /\ UserKeys(files) = {}
          /\ \A k \in UserKeys(call.pre) :
                /\ EnableName("user", k) \in DOMAIN UserServers(files)
                /\ UserServers(files)[EnableName("user", k)] = Archive(call.pre)[k].config

----------------------------------------------------------------------------
(* Claims on the renderer *)

\* C38: the optimistic update of handleToggleMcp changes only the entry that was
\* toggled, and when window.electronAPI.toggleMcp has returned a failure the list is,
\* after the rollback, what it was before handleToggleMcp was called: every entry has
\* the enabled flag and the source it had.
C38_OptimisticRollback ==
    /\ app.phase = "optimistic" =>
          \A j \in DOMAIN app.before : j # app.toggled => app.mcps[j] = app.before[j]
    /\ app.phase = "rolledBack" =>
          \A j \in DOMAIN app.before :
              /\ app.mcps[j].enabled = app.before[j].enabled
              /\ app.mcps[j].source = app.before[j].source

----------------------------------------------------------------------------
(* Claims on the skill handlers *)

\* The path is inside the user skills directory.
InUserSkills(p) == StartsWith(p, SKILLS_DIR) /\ Len(p) > Len(SKILLS_DIR)

\* C39: writeSkillContent and deleteSkill, whatever folder path or name they are
\* called with, change nothing outside the user skills directory (and the backups
\* directory): the folder of a plugin skill, and every other file, is as it was at the
\* call; and a deleteSkill with a source other than 'user' changes nothing at all.
C39_SkillsConfined ==
    call.op \in {"writeSkillContent", "deleteSkill"} =>
        /\ \A p \in AllPaths : files[p] # call.pre[p] => InUserSkills(p)
        /\ (call.op = "deleteSkill" /\ call.source # "user")
              => (files = call.pre /\ backups = call.preBackups)

====
